---- MODULE Spec2Model ----
(***************************************************************************)
(* Model of the daily-routine calendar: the time codec (TimeUtils.js), the *)
(* default mark templates (defaultMarks.js), the localStorage repositories *)
(* (schedules, marks, settings), the schedule and mark services and the    *)
(* Alpine application object (appData).                                    *)
(*                                                                         *)
(* A JavaScript string that holds a time is a sequence of one-character    *)
(* strings (<<"0","7",":","3","0">> is '07:30'), so that parsing and       *)
(* formatting are computed character by character.  Names, ids, emoji,     *)
(* titles and descriptions are opaque strings.  A JavaScript object is a   *)
(* record; a missing property is a field outside its DOMAIN.               *)
(***************************************************************************)
EXTENDS Integers, Sequences, FiniteSets, TLC

(***************************************************************************)
(* Bounds of the model.                                                    *)
(***************************************************************************)
MaxIds == 2            \* generateUUID calls in one behaviour
MaxScheduleUpdates == 1 \* successful updateSchedule calls in one behaviour
MaxMarkOps == 1        \* successful updateMark, deleteMark and direct
                       \* shiftDefaultMarks calls in one behaviour
MaxAppIds == 3         \* generateUUID calls in one behaviour of the
                       \* application
MaxAppUpdates == 1     \* handleUpdateSchedule calls in one behaviour
MaxCalendarMarks == 3  \* marks handed to the calendar
MaxStringLen == 5      \* longest string given to parseTime, normalizeTime
                       \* and isValidTime
MaxMinutes == 3000     \* largest absolute value of a minute count given to
                       \* formatTime

(***************************************************************************)
(* Time codec (utils/TimeUtils.js).                                        *)
(***************************************************************************)
MINUTES_PER_DAY == 24 * 60

Digits == <<"0", "1", "2", "3", "4", "5", "6", "7", "8", "9">>

DigitSet == {Digits[i] : i \in 1..10}

DigitValue == [c \in DigitSet |-> (CHOOSE i \in 1..10 : Digits[i] = c) - 1]

IsDigit(c) == c \in DigitSet

DigitVal(c) == DigitValue[c]

\* String.prototype.trim on a character sequence.
RECURSIVE Trim(_)
Trim(s) ==
  IF Len(s) = 0 THEN s
  ELSE IF s[1] = " " THEN Trim(Tail(s))
  ELSE IF s[Len(s)] = " " THEN Trim(SubSeq(s, 1, Len(s) - 1))
  ELSE s

\* Value of a sequence of decimal digits.
RECURSIVE DecimalValue(_)
DecimalValue(s) ==
  IF Len(s) = 0 THEN 0
  ELSE 10 * DecimalValue(SubSeq(s, 1, Len(s) - 1)) + DigitVal(s[Len(s)])

\* Number(piece) for a piece made of digits, blanks and letters: blanks are
\* trimmed, the empty string is 0, a run of digits is its decimal value and
\* anything else is NaN.
Number(s) ==
  LET t == Trim(s) IN
  IF \A i \in 1..Len(t) : IsDigit(t[i])
    THEN [nan |-> FALSE, val |-> DecimalValue(t)]
    ELSE [nan |-> TRUE, val |-> 0]

\* time.split(':'): sofar holds the characters of the piece being read.
RECURSIVE SplitFrom(_, _)
SplitFrom(s, sofar) ==
  IF Len(s) = 0 THEN <<sofar>>
  ELSE IF s[1] = ":" THEN <<sofar>> \o SplitFrom(Tail(s), <<>>)
  ELSE SplitFrom(Tail(s), Append(sofar, s[1]))

Split(s) == SplitFrom(s, <<>>)

\* parseTime(time) for a string argument.
parseTime(time) ==
  IF Len(time) = 0 THEN 0
  ELSE LET parts == Split(time)
           hours == Number(parts[1])
           minutes == IF Len(parts) >= 2 THEN Number(parts[2])
                      ELSE [nan |-> TRUE, val |-> 0]
       IN IF hours.nan \/ minutes.nan THEN 0
          ELSE hours.val * 60 + minutes.val

\* The JavaScript remainder: the sign of the result is the sign of a.
JsRem(a, b) == IF a >= 0 THEN a % b ELSE -((-a) % b)

\* String(n) for n >= 0.
RECURSIVE NumToString(_)
NumToString(n) ==
  IF n < 10 THEN <<Digits[n + 1]>>
  ELSE NumToString(n \div 10) \o <<Digits[(n % 10) + 1]>>

\* Mutant of PadStart2: no padding.
PadStart2_None(n) == NumToString(n)

\* String(n).padStart(2, '0')
PadStart2(n) ==
  LET s == NumToString(n) IN IF Len(s) < 2 THEN <<"0">> \o s ELSE s

\* Mutant of formatTime: a negative remainder is negated, not wrapped.
formatTime_Mirrored(minutes) ==
  LET r == JsRem(minutes, MINUTES_PER_DAY)
      normalizedMinutes == IF r < 0 THEN -r ELSE r
      hours == normalizedMinutes \div 60
      mins == normalizedMinutes % 60
  IN PadStart2(hours) \o <<":">> \o PadStart2(mins)

formatTime(minutes) ==
  LET r == JsRem(minutes, MINUTES_PER_DAY)
      normalizedMinutes == IF r < 0 THEN r + MINUTES_PER_DAY ELSE r
      hours == normalizedMinutes \div 60
      mins == normalizedMinutes % 60
  IN PadStart2(hours) \o <<":">> \o PadStart2(mins)

\* Mutant of shiftTime: the result stops at midnight, it does not wrap.
shiftTime_Saturating(time, deltaMinutes) ==
  formatTime(IF parseTime(time) + deltaMinutes < 0 THEN 0
             ELSE IF parseTime(time) + deltaMinutes >= MINUTES_PER_DAY
               THEN MINUTES_PER_DAY - 1
             ELSE parseTime(time) + deltaMinutes)

shiftTime(time, deltaMinutes) == formatTime(parseTime(time) + deltaMinutes)

\* Mutant of getTimeDelta: the difference is not wrapped.
getTimeDelta_NoWrap(oldTime, newTime) == parseTime(newTime) - parseTime(oldTime)

getTimeDelta(oldTime, newTime) ==
  LET delta == parseTime(newTime) - parseTime(oldTime) IN
  IF delta > 12 * 60 THEN delta - MINUTES_PER_DAY
  ELSE IF delta < -(12 * 60) THEN delta + MINUTES_PER_DAY
  ELSE delta

AllDigits(s) == \A i \in 1..Len(s) : IsDigit(s[i])

\* isValidTime(time) for a string argument.
isValidTime(time) ==
  LET trimmed == Trim(time)
      parts == Split(trimmed)
  IN IF Len(time) = 0 THEN FALSE
     ELSE IF Len(trimmed) \in 1..2 /\ AllDigits(trimmed)
       THEN DecimalValue(trimmed) >= 0 /\ DecimalValue(trimmed) <= 23
     ELSE IF ~(/\ Len(parts) = 2
               /\ Len(parts[1]) \in 1..2 /\ AllDigits(parts[1])
               /\ Len(parts[2]) = 2 /\ AllDigits(parts[2]))
       THEN FALSE
     ELSE /\ DecimalValue(parts[1]) >= 0 /\ DecimalValue(parts[1]) <= 23
          /\ DecimalValue(parts[2]) >= 0 /\ DecimalValue(parts[2]) <= 59

\* Mutant of normalizeTime: hour 24 is accepted.
normalizeTime_Hour24(time) ==
  LET trimmed == Trim(time)
      parts == Split(trimmed)
  IN IF Len(time) = 0 THEN <<>>
     ELSE IF Len(trimmed) \in 1..2 /\ AllDigits(trimmed)
       THEN IF DecimalValue(trimmed) > 24 THEN <<>>
            ELSE PadStart2(DecimalValue(trimmed)) \o <<":", "0", "0">>
     ELSE IF /\ Len(parts) = 2
             /\ Len(parts[1]) \in 1..2 /\ AllDigits(parts[1])
             /\ Len(parts[2]) = 2 /\ AllDigits(parts[2])
       THEN IF DecimalValue(parts[1]) > 24 \/ DecimalValue(parts[2]) > 59
              THEN <<>>
              ELSE PadStart2(DecimalValue(parts[1])) \o <<":">>
                     \o PadStart2(DecimalValue(parts[2]))
     ELSE <<>>

\* normalizeTime(time) for a string argument; <<>> stands for null.  The
\* first branch is /^\d{1,2}$/, the second /^(\d{1,2}):(\d{2})$/.
normalizeTime(time) ==
  LET trimmed == Trim(time)
      parts == Split(trimmed)
  IN IF Len(time) = 0 THEN <<>>
     ELSE IF Len(trimmed) \in 1..2 /\ AllDigits(trimmed)
       THEN IF DecimalValue(trimmed) > 23 THEN <<>>
            ELSE PadStart2(DecimalValue(trimmed)) \o <<":", "0", "0">>
     ELSE IF /\ Len(parts) = 2
             /\ Len(parts[1]) \in 1..2 /\ AllDigits(parts[1])
             /\ Len(parts[2]) = 2 /\ AllDigits(parts[2])
       THEN IF DecimalValue(parts[1]) > 23 \/ DecimalValue(parts[2]) > 59
              THEN <<>>
              ELSE PadStart2(DecimalValue(parts[1])) \o <<":">>
                     \o PadStart2(DecimalValue(parts[2]))
     ELSE <<>>

(***************************************************************************)
(* Time literals used as inputs.                                           *)
(***************************************************************************)
T0100 == <<"0", "1", ":", "0", "0">>
T0700 == <<"0", "7", ":", "0", "0">>
T0800 == <<"0", "8", ":", "0", "0">>
T1200 == <<"1", "2", ":", "0", "0">>
T1900 == <<"1", "9", ":", "0", "0">>
T2200 == <<"2", "2", ":", "0", "0">>
T2300 == <<"2", "3", ":", "0", "0">>

(***************************************************************************)
(* Default mark templates (constants/defaultMarks.js).  Emoji, titles and  *)
(* descriptions are transliterated to ASCII.                               *)
(***************************************************************************)
MORNING_MARK_TEMPLATES == <<
  [id |-> "wake", emoji |-> "sun", title |-> "Podyom",
   description |-> "", offsetMinutes |-> 0],
  [id |-> "breakfast", emoji |-> "egg", title |-> "Zavtrak",
   description |-> "", offsetMinutes |-> 30],
  [id |-> "coffee", emoji |-> "coffee", title |-> "Posledniy kofe",
   description |-> "Kofein vyvoditsya ~10 chasov", offsetMinutes |-> 300],
  [id |-> "lunch", emoji |-> "plate", title |-> "Obed, Lorem ipsum",
   description |-> "Lorem ipsum", offsetMinutes |-> 360] >>

EVENING_MARK_TEMPLATES == <<
  [id |-> "gym", emoji |-> "weights", title |-> "Sportzal, Lorem ipsum",
   description |-> "Poest uglevody za 1.5ch do trenirovki",
   offsetMinutes |-> -240],
  [id |-> "dinner", emoji |-> "stew", title |-> "Uzhin",
   description |-> "Ne est za 2-3 chasa do sna", offsetMinutes |-> -180],
  [id |-> "no-screens", emoji |-> "no-phones", title |-> "Bez ekranov",
   description |-> "Siniy svet meshaet melatoninu", offsetMinutes |-> -60],
  [id |-> "sleep", emoji |-> "moon", title |-> "Son",
   description |-> "Spokoynoy nochi!", offsetMinutes |-> 0] >>

DEFAULT_MARK_TEMPLATES == MORNING_MARK_TEMPLATES \o EVENING_MARK_TEMPLATES

Range(s) == {s[i] : i \in 1..Len(s)}

MORNING_MARKS == {t.id : t \in Range(MORNING_MARK_TEMPLATES)}

EVENING_MARKS == {t.id : t \in Range(EVENING_MARK_TEMPLATES)}

DEFAULT_MARK_IDS == MORNING_MARKS \cup EVENING_MARKS

TemplateOf(id) == CHOOSE t \in Range(DEFAULT_MARK_TEMPLATES) : t.id = id

(***************************************************************************)
(* JavaScript object helpers.                                              *)
(***************************************************************************)
\* { ...a, ...b }
Merge(a, b) ==
  [k \in (DOMAIN a) \cup (DOMAIN b) |-> IF k \in DOMAIN b THEN b[k] ELSE a[k]]

Has(obj, k) == k \in DOMAIN obj

\* findIndex: the first index whose element has the id, 0 when there is none.
FindIndex(seq, id) ==
  IF \E i \in 1..Len(seq) : seq[i].id = id
    THEN CHOOSE i \in 1..Len(seq) :
           seq[i].id = id /\ \A j \in 1..(i - 1) : seq[j].id # id
    ELSE 0

\* The values generateUUID returns, in the order it returns them.
UUIDS == <<"u1", "u2", "u3", "u4", "u5", "u6", "u7", "u8">>

generateUUID(n) == UUIDS[n + 1]

(***************************************************************************)
(* State.                                                                  *)
(***************************************************************************)
VARIABLES
  storeSchedules,       \* localStorage 'schedules': sequence of Schedule
  storeMarks,           \* localStorage 'marks': sequence of Mark
  storeSettings,        \* localStorage 'settings': [activeScheduleId]
  nextId,               \* number of generateUUID calls made so far
  scheduleUpdates,      \* number of updateSchedule calls made so far
  markOps,              \* number of updateMark, deleteMark and direct
                        \* shiftDefaultMarks calls made so far
  op,                   \* the last call: its name, its id argument, threw
  loaded,               \* appData: loadData has run
  schedules,            \* appData.schedules
  activeScheduleIndex,  \* appData.activeScheduleIndex (0-based)
  marks,                \* appData.marks
  currentTime,          \* appData.currentTime, as minutes since midnight
  editingTimeField,     \* appData.editingTimeField: NULL, "wakeTime", "bedtime"
  editingTimeValue,     \* appData.editingTimeValue: the text in the input
  shift,                \* the shiftDefaultMarks call in progress in one tab
  fault                 \* what is wrong with localStorage

vars == <<storeSchedules, storeMarks, storeSettings, nextId,
          scheduleUpdates, markOps, op,
          loaded, schedules, activeScheduleIndex, marks,
          currentTime, editingTimeField, editingTimeValue, shift, fault>>

storeVars == <<storeSchedules, storeMarks, storeSettings>>

appVars == <<loaded, schedules, activeScheduleIndex, marks>>

editVars == <<currentTime, editingTimeField, editingTimeValue>>

auxVars == <<shift, fault>>

NULL == "null"

(***************************************************************************)
(* Repositories (repositories/*.js).  Each operator takes the stored array *)
(* and returns the array that is written back.                             *)
(***************************************************************************)
\* Mutant of Upsert: the record is appended whether or not its id is stored.
Upsert_AlwaysAppend(store, rec) == Append(store, rec)

\* The upsert of ScheduleRepository.save and MarkRepository.save for a
\* record that carries an id.
Upsert(store, rec) ==
  LET index == FindIndex(store, rec.id) IN
  IF index # 0 THEN [store EXCEPT ![index] = Merge(store[index], rec)]
  ELSE Append(store, rec)

\* ScheduleRepository.save; n is the number of ids generated so far.
ScheduleRepository_save(store, schedule, n) ==
  IF ~Has(schedule, "id")
    THEN LET saved == Merge(schedule, [id |-> generateUUID(n)])
         IN [store |-> Append(store, saved), saved |-> saved, n |-> n + 1]
    ELSE [store |-> Upsert(store, schedule), saved |-> schedule, n |-> n]

ScheduleRepository_delete(store, id) ==
  SelectSeq(store, LAMBDA s : s.id # id)

\* MarkRepository.save
MarkRepository_save(store, mark, n) ==
  IF ~Has(mark, "id")
    THEN LET saved == Merge(mark, [id |-> generateUUID(n)])
         IN [store |-> Append(store, saved), saved |-> saved, n |-> n + 1]
    ELSE [store |-> Upsert(store, mark), saved |-> mark, n |-> n]

\* marksToSave.forEach(...) in saveMany; n is the number of ids generated
\* so far.
RECURSIVE SaveEach(_, _, _)
SaveEach(store, marksToSave, n) ==
  IF Len(marksToSave) = 0 THEN [store |-> store, n |-> n]
  ELSE IF ~Has(marksToSave[1], "id")
    THEN SaveEach(Append(store, Merge(marksToSave[1],
                                      [id |-> generateUUID(n)])),
                  Tail(marksToSave), n + 1)
    ELSE SaveEach(Upsert(store, marksToSave[1]), Tail(marksToSave), n)

\* MarkRepository.saveMany for records that all carry an id: no id is
\* generated.
MarkRepository_saveMany(store, marksToSave) ==
  SaveEach(store, marksToSave, 0).store

MarkRepository_delete(store, id) ==
  SelectSeq(store, LAMBDA m : m.id # id)

\* Mutant of deleteByScheduleId: the filter compares the mark's own id.
MarkRepository_deleteByScheduleId_ById(store, scheduleId) ==
  SelectSeq(store, LAMBDA m : m.id # scheduleId)

MarkRepository_deleteByScheduleId(store, scheduleId) ==
  SelectSeq(store, LAMBDA m : m.scheduleId # scheduleId)

isDefaultMark(id) == id \in DEFAULT_MARK_IDS

\* Array.prototype.sort((a, b) => parseTime(a.time) - parseTime(b.time)):
\* a stable sort, as an insertion sort over <<key, mark>> pairs.
RECURSIVE WithKeys(_)
WithKeys(seq) ==
  IF Len(seq) = 0 THEN <<>>
  ELSE <<<<parseTime(seq[1].time), seq[1]>>>> \o WithKeys(Tail(seq))

RECURSIVE InsertByKey(_, _)
InsertByKey(sorted, p) ==
  IF Len(sorted) = 0 THEN <<p>>
  ELSE IF sorted[Len(sorted)][1] <= p[1] THEN Append(sorted, p)
  ELSE Append(InsertByKey(SubSeq(sorted, 1, Len(sorted) - 1), p),
              sorted[Len(sorted)])

RECURSIVE SortPairs(_)
SortPairs(ps) ==
  IF Len(ps) = 0 THEN <<>>
  ELSE InsertByKey(SortPairs(SubSeq(ps, 1, Len(ps) - 1)), ps[Len(ps)])

RECURSIVE Seconds(_)
Seconds(ps) ==
  IF Len(ps) = 0 THEN <<>> ELSE <<ps[1][2]>> \o Seconds(Tail(ps))

SortByTime(seq) == Seconds(SortPairs(WithKeys(seq)))

MarkRepository_getByScheduleId(store, scheduleId) ==
  SortByTime(SelectSeq(store, LAMBDA m : m.scheduleId = scheduleId))

(***************************************************************************)
(* MarkService (services/MarkService.js).                                  *)
(***************************************************************************)
\* data[k] || dflt, where empty is the falsy string
OrDefault(data, k, empty, dflt) ==
  IF Has(data, k) /\ data[k] # empty THEN data[k] ELSE dflt

MarkService_getMarks(store, scheduleId) ==
  SortByTime(MarkRepository_getByScheduleId(store, scheduleId))

MarkService_createMark(store, scheduleId, data, n) ==
  LET mark == [scheduleId |-> scheduleId,
               emoji |-> OrDefault(data, "emoji", "", "pin"),
               title |-> OrDefault(data, "title", "", "Novaya zasechka"),
               description |-> OrDefault(data, "description", "", ""),
               time |-> OrDefault(data, "time", <<>>, T1200)]
  IN MarkRepository_save(store, mark, n)

\* Mutant of updateMark: an unknown id is saved as a new mark, no error.
MarkService_updateMark_Upsert(store, id, data) ==
  LET index == FindIndex(store, id) IN
  IF index = 0
    THEN [store |-> MarkRepository_save(store, Merge([id |-> id], data),
                                        0).store,
          threw |-> FALSE]
    ELSE [store |-> MarkRepository_save(store, Merge(store[index], data),
                                        0).store,
          threw |-> FALSE]

\* updateMark: threw is TRUE when no stored mark has the id.
MarkService_updateMark(store, id, data) ==
  LET index == FindIndex(store, id) IN
  IF index = 0 THEN [store |-> store, threw |-> TRUE]
  ELSE LET updatedMark == Merge(store[index], data)
       IN [store |-> MarkRepository_save(store, updatedMark, 0).store,
           threw |-> FALSE]

MarkService_deleteMark(store, id) == MarkRepository_delete(store, id)

\* Mutant of DefaultMarksFor: the evening offsets are added to wakeTime.
DefaultMarksFor_EveningFromWake(scheduleId, wakeTime, bedtime) ==
  [i \in 1..Len(DEFAULT_MARK_TEMPLATES) |->
     LET template == DEFAULT_MARK_TEMPLATES[i] IN
     [id |-> template.id, scheduleId |-> scheduleId,
      emoji |-> template.emoji, title |-> template.title,
      description |-> template.description,
      time |-> formatTime(parseTime(wakeTime) + template.offsetMinutes)]]

\* The marks createDefaultMarks builds before it saves them.
DefaultMarksFor(scheduleId, wakeTime, bedtime) ==
  LET wakeMinutes == parseTime(wakeTime)
      bedMinutes == parseTime(bedtime)
      morningMarks ==
        [i \in 1..Len(MORNING_MARK_TEMPLATES) |->
           LET template == MORNING_MARK_TEMPLATES[i] IN
           [id |-> template.id, scheduleId |-> scheduleId,
            emoji |-> template.emoji, title |-> template.title,
            description |-> template.description,
            time |-> formatTime(wakeMinutes + template.offsetMinutes)]]
      eveningMarks ==
        [i \in 1..Len(EVENING_MARK_TEMPLATES) |->
           LET template == EVENING_MARK_TEMPLATES[i] IN
           [id |-> template.id, scheduleId |-> scheduleId,
            emoji |-> template.emoji, title |-> template.title,
            description |-> template.description,
            time |-> formatTime(bedMinutes + template.offsetMinutes)]]
  IN morningMarks \o eveningMarks

\* Mutant of createDefaultMarks: only the morning marks are saved.
MarkService_createDefaultMarks_MorningOnly(store, scheduleId, wakeTime, bedtime) ==
  MarkRepository_saveMany(
    store,
    SubSeq(DefaultMarksFor(scheduleId, wakeTime, bedtime), 1,
           Len(MORNING_MARK_TEMPLATES)))

MarkService_createDefaultMarks(store, scheduleId, wakeTime, bedtime) ==
  MarkRepository_saveMany(store,
                          DefaultMarksFor(scheduleId, wakeTime, bedtime))

(***************************************************************************)
(* ScheduleService (services/ScheduleService.js).                          *)
(***************************************************************************)
\* Mutant of MarkDelta: every default mark is moved by wakeDelta.
MarkDelta_AlwaysWake(id, wakeDelta, bedDelta) == wakeDelta

\* The delta shiftDefaultMarks selects for a default mark.
MarkDelta(id, wakeDelta, bedDelta) ==
  IF id \in MORNING_MARKS THEN wakeDelta
  ELSE IF id \in EVENING_MARKS THEN bedDelta
  ELSE 0

\* Mutant of ShiftOne: no isDefaultMark check, and a mark that is not an
\* evening mark is moved by wakeDelta.
ShiftOne_NoDefaultCheck(store, mark, wakeDelta, bedDelta) ==
  LET delta == IF mark.id \in EVENING_MARKS THEN bedDelta ELSE wakeDelta IN
  IF delta # 0
    THEN MarkRepository_save(
           store, [mark EXCEPT !.time = shiftTime(mark.time, delta)],
           0).store
    ELSE store

\* Mutant of ShiftOne: the mark is read again before it is shifted, and a
\* mark that is no longer stored is skipped.
ShiftOne_FreshCopy(store, mark, wakeDelta, bedDelta) ==
  LET delta == IF mark.id \in MORNING_MARKS THEN wakeDelta
               ELSE IF mark.id \in EVENING_MARKS THEN bedDelta ELSE 0
      index == FindIndex(store, mark.id)
  IN IF delta # 0 /\ index # 0
       THEN [store EXCEPT
               ![index].time = shiftTime(store[index].time, delta)]
       ELSE store

\* The body of marks.forEach in shiftDefaultMarks, for one mark.
ShiftOne(store, mark, wakeDelta, bedDelta) ==
  IF ~isDefaultMark(mark.id) THEN store
  ELSE LET delta == MarkDelta(mark.id, wakeDelta, bedDelta) IN
       IF delta # 0
         THEN MarkRepository_save(
                store, [mark EXCEPT !.time = shiftTime(mark.time, delta)],
                0).store
         ELSE store

RECURSIVE ShiftEach(_, _, _, _)
ShiftEach(store, list, wakeDelta, bedDelta) ==
  IF Len(list) = 0 THEN store
  ELSE ShiftEach(ShiftOne(store, list[1], wakeDelta, bedDelta),
                 Tail(list), wakeDelta, bedDelta)

ScheduleService_shiftDefaultMarks(store, scheduleId, oldWakeTime, newWakeTime, oldBedtime, newBedtime) ==
  ShiftEach(store, MarkRepository_getByScheduleId(store, scheduleId),
            getTimeDelta(oldWakeTime, newWakeTime),
            getTimeDelta(oldBedtime, newBedtime))

\* createSchedule(name, wakeTime = '07:00', bedtime = '22:00'); args holds
\* the arguments that were passed.
ScheduleService_createSchedule(scheds, mks, args, n) ==
  LET wakeTime == IF Has(args, "wakeTime") THEN args.wakeTime ELSE T0700
      bedtime == IF Has(args, "bedtime") THEN args.bedtime ELSE T2200
      schedule == [name |-> OrDefault(args, "name", "", "Novoe raspisanie"),
                   wakeTime |-> wakeTime, bedtime |-> bedtime]
      r == ScheduleRepository_save(scheds, schedule, n)
  IN [schedules |-> r.store,
      marks |-> MarkService_createDefaultMarks(mks, r.saved.id,
                                               wakeTime, bedtime),
      saved |-> r.saved, n |-> r.n]

\* Mutant of TimeChanged: the comparison with the old value is missing.
TimeChanged_NoCompare(data, k, old) == Has(data, k) /\ data[k] # <<>>

\* data.wakeTime && data.wakeTime !== oldWakeTime
TimeChanged(data, k, old) == Has(data, k) /\ data[k] # <<>> /\ data[k] # old

ScheduleService_updateSchedule(scheds, mks, id, data) ==
  LET index == FindIndex(scheds, id) IN
  IF index = 0
    THEN [schedules |-> scheds, marks |-> mks, threw |-> TRUE,
          shifted |-> FALSE]
    ELSE
      LET currentSchedule == scheds[index]
          oldWakeTime == currentSchedule.wakeTime
          oldBedtime == currentSchedule.bedtime
          updatedSchedule == Merge(currentSchedule, data)
          r == ScheduleRepository_save(scheds, updatedSchedule, 0)
          wakeTimeChanged == TimeChanged(data, "wakeTime", oldWakeTime)
          bedtimeChanged == TimeChanged(data, "bedtime", oldBedtime)
      IN [schedules |-> r.store,
          marks |-> IF wakeTimeChanged \/ bedtimeChanged
                      THEN ScheduleService_shiftDefaultMarks(
                             mks, id, oldWakeTime, r.saved.wakeTime,
                             oldBedtime, r.saved.bedtime)
                      ELSE mks,
          saved |-> r.saved, threw |-> FALSE,
          shifted |-> wakeTimeChanged \/ bedtimeChanged]

\* Mutant of deleteSchedule: the marks are not deleted.
ScheduleService_deleteSchedule_NoCascade(scheds, mks, id) ==
  [schedules |-> ScheduleRepository_delete(scheds, id), marks |-> mks]

ScheduleService_deleteSchedule(scheds, mks, id) ==
  [schedules |-> ScheduleRepository_delete(scheds, id),
   marks |-> MarkRepository_deleteByScheduleId(mks, id)]

(***************************************************************************)
(* Inputs.                                                                 *)
(***************************************************************************)
\* An id that is never stored.
GhostId == "ghost"

StoredScheduleIds == {s.id : s \in Range(storeSchedules)}

StoredMarkIds == {m.id : m \in Range(storeMarks)}

\* Arguments of createSchedule: name only, or name, wakeTime and bedtime.
ScheduleArgs ==
  { [name |-> "Work"],
    [name |-> "", wakeTime |-> T0800, bedtime |-> T0100] }

\* The data argument of updateSchedule.
ScheduleData ==
  { [name |-> "Renamed"],
    [wakeTime |-> T0800],
    [bedtime |-> T0100],
    [name |-> "Renamed", wakeTime |-> T1900, bedtime |-> T2300] }

\* The data argument of createMark.
NewMarkData ==
  { [title |-> ""],
    [emoji |-> "star", title |-> "Walk", description |-> "park",
     time |-> T0100] }

\* The data argument of updateMark.
MarkData ==
  { [emoji |-> "star", title |-> "Edited", description |-> "note"],
    [time |-> T1200],
    [scheduleId |-> GhostId] }

\* (oldWakeTime, newWakeTime, oldBedtime, newBedtime) of a direct
\* shiftDefaultMarks call.
ShiftArgs ==
  { <<T0700, T0800, T2200, T2200>>, <<T0700, T0700, T2300, T0100>> }

\* The mark ids passed to updateMark and deleteMark: one morning and one
\* evening default mark, every stored user mark, and an id that is not stored.
MarkTargets ==
  {"wake", "sleep"} \cup (StoredMarkIds \ DEFAULT_MARK_IDS) \cup {GhostId}

(***************************************************************************)
(* Initial state: empty localStorage, application object constructed and   *)
(* not yet initialised.                                                    *)
(***************************************************************************)
\* The record of a call: threw is TRUE when it raised an error, shifted when
\* it ran shiftDefaultMarks, before is the length of appData.schedules when
\* it was made.
Call(name, id, threw, shifted) ==
  [name |-> name, id |-> id, threw |-> threw, shifted |-> shifted,
   before |-> Len(schedules)]

\* No shiftDefaultMarks call is in progress.
IdleShift ==
  [pc |-> "idle", id |-> NULL, marks |-> <<>>, k |-> 0, wakeDelta |-> 0,
   bedDelta |-> 0, before |-> <<>>, last |-> <<>>, interfered |-> FALSE]

\* localStorage works: getItem and setItem do not throw, every item parses.
NoFault == [unavailable |-> FALSE, full |-> FALSE, corrupt |-> {}]

Init ==
  /\ storeSchedules = <<>>
  /\ storeMarks = <<>>
  /\ storeSettings = [activeScheduleId |-> NULL]
  /\ nextId = 0
  /\ scheduleUpdates = 0
  /\ markOps = 0
  /\ loaded = FALSE
  /\ schedules = <<>>
  /\ activeScheduleIndex = 0
  /\ marks = <<>>
  /\ currentTime = parseTime(T1200)
  /\ editingTimeField = NULL
  /\ editingTimeValue = <<>>
  /\ shift = IdleShift
  /\ fault = NoFault
  /\ op = Call("init", NULL, FALSE, FALSE)

(***************************************************************************)
(* Calls of the service API.                                               *)
(***************************************************************************)
CreateSchedule ==
  \E args \in ScheduleArgs :
    /\ nextId < MaxIds
    /\ \E r \in {ScheduleService_createSchedule(storeSchedules, storeMarks,
                                                  args, nextId)} :
         /\ storeSchedules' = r.schedules
         /\ storeMarks' = r.marks
         /\ nextId' = r.n
         /\ op' = Call("createSchedule", r.saved.id, FALSE, FALSE)
    /\ UNCHANGED <<storeSettings, scheduleUpdates, markOps, appVars, editVars, auxVars>>

UpdateSchedule ==
  \E id \in StoredScheduleIds \cup {GhostId}, data \in ScheduleData :
    \E r \in {ScheduleService_updateSchedule(storeSchedules, storeMarks,
                                              id, data)} :
       /\ r.threw \/ scheduleUpdates < MaxScheduleUpdates
       /\ storeSchedules' = r.schedules
       /\ storeMarks' = r.marks
       /\ scheduleUpdates' = IF r.threw THEN scheduleUpdates
                             ELSE scheduleUpdates + 1
       /\ op' = Call("updateSchedule", id, r.threw, r.shifted)
       /\ UNCHANGED <<storeSettings, nextId, markOps, appVars, editVars, auxVars>>

DeleteSchedule ==
  \E id \in StoredScheduleIds \cup {GhostId} :
    \E r \in {ScheduleService_deleteSchedule(storeSchedules, storeMarks,
                                              id)} :
       /\ storeSchedules' = r.schedules
       /\ storeMarks' = r.marks
       /\ op' = Call("deleteSchedule", id, FALSE, FALSE)
       /\ UNCHANGED <<storeSettings, nextId, scheduleUpdates, markOps,
                      appVars, editVars, auxVars>>

ShiftDefaultMarks ==
  \E id \in StoredScheduleIds, a \in ShiftArgs :
    /\ markOps < MaxMarkOps
    /\ storeMarks' = ScheduleService_shiftDefaultMarks(
                       storeMarks, id, a[1], a[2], a[3], a[4])
    /\ markOps' = markOps + 1
    /\ op' = Call("shiftDefaultMarks", id, FALSE, TRUE)
    /\ UNCHANGED <<storeSchedules, storeSettings, nextId, scheduleUpdates,
                   appVars, editVars, auxVars>>

CreateMark ==
  \E scheduleId \in StoredScheduleIds \cup {GhostId}, data \in NewMarkData :
    /\ nextId < MaxIds
    /\ \E r \in {MarkService_createMark(storeMarks, scheduleId, data,
                                          nextId)} :
         /\ storeMarks' = r.store
         /\ nextId' = r.n
         /\ op' = Call("createMark", r.saved.id, FALSE, FALSE)
    /\ UNCHANGED <<storeSchedules, storeSettings, scheduleUpdates, markOps,
                   appVars, editVars, auxVars>>

UpdateMark ==
  \E id \in MarkTargets, data \in MarkData :
    \E r \in {MarkService_updateMark(storeMarks, id, data)} :
       /\ r.threw \/ markOps < MaxMarkOps
       /\ storeMarks' = r.store
       /\ markOps' = IF r.threw THEN markOps ELSE markOps + 1
       /\ op' = Call("updateMark", id, r.threw, FALSE)
       /\ UNCHANGED <<storeSchedules, storeSettings, nextId, scheduleUpdates,
                      appVars, editVars, auxVars>>

DeleteMark ==
  \E id \in MarkTargets :
    /\ markOps < MaxMarkOps
    /\ storeMarks' = MarkService_deleteMark(storeMarks, id)
    /\ markOps' = markOps + 1
    /\ op' = Call("deleteMark", id, FALSE, FALSE)
    /\ UNCHANGED <<storeSchedules, storeSettings, nextId, scheduleUpdates,
                   appVars, editVars, auxVars>>

Next ==
  \/ CreateSchedule
  \/ UpdateSchedule
  \/ DeleteSchedule
  \/ ShiftDefaultMarks
  \/ CreateMark
  \/ UpdateMark
  \/ DeleteMark

Spec == Init /\ [][Next]_vars

(***************************************************************************)
(* Calls of the repositories themselves.                                   *)
(***************************************************************************)
\* The ids a record handed to save may carry: a stored one, a template id
\* and an id that is not stored.
ScheduleIdsToSave == StoredScheduleIds \cup {GhostId}

MarkIdsToSave == StoredMarkIds \cup {"wake"}

\* The schedules handed to ScheduleRepository.save.
SchedulesToSave ==
  {[name |-> "A", wakeTime |-> T0700, bedtime |-> T2200]}
    \cup {[id |-> i, name |-> "C"] : i \in ScheduleIdsToSave}

\* The marks handed to MarkRepository.save and saveMany.
MarksToSave ==
  {[scheduleId |-> "s1", emoji |-> "pin", title |-> "New", description |-> "",
    time |-> T1200]}
    \cup {[id |-> i, time |-> T0100] : i \in MarkIdsToSave}

RepositoryCall(name, repository, records, id) ==
  [name |-> name, repository |-> repository, records |-> records, id |-> id]

SaveSchedule ==
  \E schedule \in SchedulesToSave :
    /\ Has(schedule, "id") \/ nextId < MaxIds
    /\ \E r \in {ScheduleRepository_save(storeSchedules, schedule, nextId)} :
         /\ storeSchedules' = r.store
         /\ nextId' = r.n
    /\ op' = RepositoryCall("save", "schedules", <<schedule>>, NULL)
    /\ UNCHANGED <<storeMarks, storeSettings, scheduleUpdates, markOps,
                   appVars, editVars, auxVars>>

DeleteStoredSchedule ==
  \E id \in ScheduleIdsToSave :
    /\ storeSchedules' = ScheduleRepository_delete(storeSchedules, id)
    /\ op' = RepositoryCall("delete", "schedules", <<>>, id)
    /\ UNCHANGED <<storeMarks, storeSettings, nextId, scheduleUpdates,
                   markOps, appVars, editVars, auxVars>>

SaveMark ==
  \E mark \in MarksToSave :
    /\ Has(mark, "id") \/ nextId < MaxIds
    /\ \E r \in {MarkRepository_save(storeMarks, mark, nextId)} :
         /\ storeMarks' = r.store
         /\ nextId' = r.n
    /\ op' = RepositoryCall("save", "marks", <<mark>>, NULL)
    /\ UNCHANGED <<storeSchedules, storeSettings, scheduleUpdates, markOps,
                   appVars, editVars, auxVars>>

SaveManyMarks ==
  \E first \in MarksToSave, second \in MarksToSave :
    /\ \E r \in {SaveEach(storeMarks, <<first, second>>, nextId)} :
         /\ r.n <= MaxIds
         /\ storeMarks' = r.store
         /\ nextId' = r.n
    /\ op' = RepositoryCall("saveMany", "marks", <<first, second>>, NULL)
    /\ UNCHANGED <<storeSchedules, storeSettings, scheduleUpdates, markOps,
                   appVars, editVars, auxVars>>

DeleteStoredMark ==
  \E id \in MarkIdsToSave :
    /\ storeMarks' = MarkRepository_delete(storeMarks, id)
    /\ op' = RepositoryCall("delete", "marks", <<>>, id)
    /\ UNCHANGED <<storeSchedules, storeSettings, nextId, scheduleUpdates,
                   markOps, appVars, editVars, auxVars>>

NextRepository ==
  \/ SaveSchedule
  \/ DeleteStoredSchedule
  \/ SaveMark
  \/ SaveManyMarks
  \/ DeleteStoredMark

SpecRepository == Init /\ [][NextRepository]_vars

(***************************************************************************)
(* SettingsService and SettingsRepository.                                 *)
(***************************************************************************)
\* Mutant of updateActiveSchedule: the settings are saved as they were read.
SettingsService_updateActiveSchedule_Unset(settings, activeScheduleId) ==
  settings

SettingsService_updateActiveSchedule(settings, activeScheduleId) ==
  [settings EXCEPT !.activeScheduleId = activeScheduleId]

(***************************************************************************)
(* localStorage failures, as the repositories see them.  fault.unavailable *)
(* makes getItem and setItem throw, fault.full makes setItem throw, and a   *)
(* key in fault.corrupt holds text that JSON.parse rejects.                 *)
(***************************************************************************)
STORAGE_KEYS == {"schedules", "marks", "settings"}

DEFAULT_SETTINGS == [activeScheduleId |-> NULL]

\* The try block of a repository read throws.
ReadFails(f, key) == f.unavailable \/ key \in f.corrupt

\* The try block of a repository write throws.
WriteFails(f) == f.unavailable \/ f.full

\* Mutant of ScheduleRepository_getAll: a failed read yields the list that
\* was stored.
ScheduleRepository_getAll_Stale(f, store) == store

\* getAll(): the stored list, [] from the catch block.
ScheduleRepository_getAll(f, store) ==
  IF ReadFails(f, "schedules") THEN <<>> ELSE store

\* _getAll(): the stored list, [] from the catch block.
MarkRepository_getAll(f, store) ==
  IF ReadFails(f, "marks") THEN <<>> ELSE store

\* load(): the stored settings, the default ones from the catch block.
SettingsRepository_load(f, settings) ==
  IF ReadFails(f, "settings") THEN DEFAULT_SETTINGS ELSE settings

\* _saveToStorage and SettingsRepository.save: the item after setItem was
\* tried with value; the catch block leaves it as it was.
saveToStorage(f, store, value) == IF WriteFails(f) THEN store ELSE value

\* The fault after setItem was tried on keys: text written is JSON again.
Rewritten(f, keys) ==
  IF WriteFails(f) THEN f ELSE [f EXCEPT !.corrupt = @ \ keys]

(***************************************************************************)
(* The application object (appData).                                       *)
(***************************************************************************)
DefaultScheduleArgs ==
  [name |-> "Obychnyy den", wakeTime |-> T0700, bedtime |-> T2200]

\* get activeSchedule() of a schedule list and a 0-based index; the result
\* is a one-element sequence, or empty for null.
ActiveScheduleOf(list, index) ==
  IF index + 1 \in 1..Len(list) THEN <<list[index + 1]>> ELSE <<>>

\* The $watch on activeScheduleIndex registered by init: when the index has
\* changed and there is an active schedule, the marks are loaded again.
WatchedMarks(mks, list, oldIndex, newIndex, current) ==
  IF newIndex # oldIndex /\ ActiveScheduleOf(list, newIndex) # <<>>
    THEN MarkService_getMarks(mks, ActiveScheduleOf(list, newIndex)[1].id)
    ELSE current

\* Mutant of ScheduleIndex: the index is 1-based.
ScheduleIndex_OneBased(list, id) ==
  IF FindIndex(list, id) = 0 THEN -1 ELSE FindIndex(list, id)

\* schedules.findIndex(s => s.id === id), 0-based, -1 when there is none
ScheduleIndex(list, id) == FindIndex(list, id) - 1

\* this.schedules.filter((_, i) => i !== index)
RemoveAt(list, index) ==
  SubSeq(list, 1, index) \o SubSeq(list, index + 2, Len(list))

\* The page is opened: init() runs loadData.
LoadData ==
  /\ ~loaded
  /\ ScheduleRepository_getAll(fault, storeSchedules) # <<>>
       \/ nextId < MaxAppIds
  /\ LET stored == ScheduleRepository_getAll(fault, storeSchedules)
         readable == MarkRepository_getAll(fault, storeMarks)
     IN \E c \in {IF stored = <<>>
                    THEN ScheduleService_createSchedule(
                           stored, readable, DefaultScheduleArgs, nextId)
                    ELSE [schedules |-> stored, marks |-> readable,
                          n |-> nextId]} :
          LET list == IF stored = <<>> THEN <<c.saved>> ELSE stored
              settings == SettingsRepository_load(fault, storeSettings)
              idx == IF settings.activeScheduleId # NULL
                       THEN ScheduleIndex(list, settings.activeScheduleId)
                       ELSE -1
              active == IF idx >= 0 THEN idx ELSE 0
              reread == IF stored = <<>> /\ ~WriteFails(fault)
                          THEN c.marks ELSE readable
          IN /\ storeSchedules' = IF stored = <<>>
                                    THEN saveToStorage(fault, storeSchedules,
                                                       c.schedules)
                                    ELSE storeSchedules
             /\ storeMarks' = IF stored = <<>>
                                THEN saveToStorage(fault, storeMarks, c.marks)
                                ELSE storeMarks
             /\ fault' = IF stored = <<>>
                           THEN Rewritten(fault, {"schedules", "marks"})
                           ELSE fault
             /\ nextId' = c.n
             /\ schedules' = list
             /\ activeScheduleIndex' = active
             /\ marks' = IF ActiveScheduleOf(list, active) # <<>>
                           THEN MarkService_getMarks(
                                  reread, ActiveScheduleOf(list, active)[1].id)
                           ELSE marks
             /\ op' = Merge(Call("loadData", NULL, FALSE, FALSE),
                            [fault |-> fault])
  /\ loaded' = TRUE
  /\ UNCHANGED <<storeSettings, scheduleUpdates, markOps, editVars, shift>>

\* The page is closed: the application object is gone, localStorage stays.
Unload ==
  /\ loaded
  /\ loaded' = FALSE
  /\ schedules' = <<>>
  /\ activeScheduleIndex' = 0
  /\ marks' = <<>>
  /\ op' = Call("unload", NULL, FALSE, FALSE)
  /\ UNCHANGED <<storeVars, nextId, scheduleUpdates, markOps, editVars,
                 auxVars>>

\* A tab is selected: handleActiveScheduleIndexChange(index).
HandleActiveScheduleIndexChange ==
  \E index \in 0..(Len(schedules) - 1) :
    /\ loaded
    /\ activeScheduleIndex' = index
    /\ storeSettings' = saveToStorage(
                          fault, storeSettings,
                          SettingsService_updateActiveSchedule(
                            SettingsRepository_load(fault, storeSettings),
                            schedules[index + 1].id))
    /\ fault' = Rewritten(fault, {"settings"})
    /\ marks' = WatchedMarks(MarkRepository_getAll(fault, storeMarks),
                             schedules, activeScheduleIndex, index, marks)
    /\ op' = Merge(Call("handleActiveScheduleIndexChange",
                        schedules[index + 1].id, FALSE, FALSE),
                   [fault |-> fault])
    /\ UNCHANGED <<storeSchedules, storeMarks, nextId, scheduleUpdates,
                   markOps, loaded, schedules, editVars, shift>>

HandleUpdateSchedule ==
  \E data \in ScheduleData :
    /\ loaded
    /\ scheduleUpdates < MaxAppUpdates
    /\ ActiveScheduleOf(schedules, activeScheduleIndex) # <<>>
    /\ \E r \in {ScheduleService_updateSchedule(
                    storeSchedules, storeMarks,
                    ActiveScheduleOf(schedules, activeScheduleIndex)[1].id,
                    data)} :
         /\ storeSchedules' = r.schedules
         /\ storeMarks' = r.marks
         /\ op' = Call("handleUpdateSchedule",
                       ActiveScheduleOf(schedules, activeScheduleIndex)[1].id,
                       r.threw, r.shifted)
         /\ IF r.threw
              THEN UNCHANGED <<schedules, marks>>
              ELSE /\ schedules' = [schedules EXCEPT
                                      ![activeScheduleIndex + 1] = r.saved]
                   /\ marks' = MarkService_getMarks(r.marks, r.saved.id)
    /\ scheduleUpdates' = scheduleUpdates + 1
    /\ UNCHANGED <<storeSettings, nextId, markOps, loaded,
                   activeScheduleIndex, editVars, auxVars>>

HandleCreateSchedule ==
  \E name \in {"Work"} :
    /\ loaded
    /\ nextId < MaxAppIds
    /\ LET current == ActiveScheduleOf(schedules, activeScheduleIndex)
           wakeTime == IF current # <<>> /\ current[1].wakeTime # <<>>
                         THEN current[1].wakeTime ELSE T0700
           bedtime == IF current # <<>> /\ current[1].bedtime # <<>>
                        THEN current[1].bedtime ELSE T2200
           readable == MarkRepository_getAll(fault, storeMarks)
       IN \E c \in {ScheduleService_createSchedule(
                       ScheduleRepository_getAll(fault, storeSchedules),
                       readable,
                       [name |-> name, wakeTime |-> wakeTime,
                        bedtime |-> bedtime], nextId)} :
            /\ storeSchedules' = saveToStorage(fault, storeSchedules,
                                               c.schedules)
            /\ storeMarks' = saveToStorage(fault, storeMarks, c.marks)
            /\ nextId' = c.n
            /\ schedules' = Append(schedules, c.saved)
            /\ activeScheduleIndex' = Len(schedules)
            /\ storeSettings' = saveToStorage(
                                  fault, storeSettings,
                                  SettingsService_updateActiveSchedule(
                                    SettingsRepository_load(fault,
                                                            storeSettings),
                                    c.saved.id))
            /\ fault' = Rewritten(fault, STORAGE_KEYS)
            /\ marks' = WatchedMarks(
                          IF WriteFails(fault) THEN readable ELSE c.marks,
                          Append(schedules, c.saved),
                          activeScheduleIndex, Len(schedules), marks)
            /\ op' = Merge(Call("handleCreateSchedule", c.saved.id, FALSE,
                                FALSE),
                           [fault |-> fault])
    /\ UNCHANGED <<scheduleUpdates, markOps, loaded, editVars, shift>>

\* The new activeScheduleIndex after the entry at index was removed and
\* count entries remain.
\* Mutant of IndexAfterDelete: the index is clamped but never decremented.
IndexAfterDelete_NoDecrement(active, index, count) ==
  IF active >= count THEN count - 1 ELSE active

\* Mutant of IndexAfterDelete: the index is left as it was.
IndexAfterDelete_Unchanged(active, index, count) == active

IndexAfterDelete(active, index, count) ==
  IF active >= count THEN count - 1
  ELSE IF active > index THEN active - 1
  ELSE active

HandleDeleteSchedule ==
  \E index \in 0..(Len(schedules) - 1) :
    /\ loaded
    /\ Len(schedules) > 1 \/ nextId < MaxAppIds
    /\ \E d \in {ScheduleService_deleteSchedule(
                    storeSchedules, storeMarks, schedules[index + 1].id)} :
         LET remaining == RemoveAt(schedules, index) IN
         IF Len(remaining) = 0
           THEN \E c \in {ScheduleService_createSchedule(
                            d.schedules, d.marks, DefaultScheduleArgs,
                            nextId)} :
                  /\ storeSchedules' = c.schedules
                  /\ storeMarks' = c.marks
                  /\ nextId' = c.n
                  /\ schedules' = <<c.saved>>
                  /\ activeScheduleIndex' = 0
                  /\ marks' = MarkService_getMarks(c.marks, c.saved.id)
                  /\ storeSettings' = SettingsService_updateActiveSchedule(
                                        storeSettings, c.saved.id)
           ELSE LET newIndex == IndexAfterDelete(activeScheduleIndex, index,
                                                 Len(remaining))
                    newActive == ActiveScheduleOf(remaining, newIndex)
                IN /\ storeSchedules' = d.schedules
                   /\ storeMarks' = d.marks
                   /\ nextId' = nextId
                   /\ schedules' = remaining
                   /\ activeScheduleIndex' = newIndex
                   /\ IF newActive # <<>>
                        THEN /\ marks' = MarkService_getMarks(
                                           d.marks, newActive[1].id)
                             /\ storeSettings' =
                                  SettingsService_updateActiveSchedule(
                                    storeSettings, newActive[1].id)
                        ELSE UNCHANGED <<marks, storeSettings>>
    /\ op' = Call("handleDeleteSchedule", schedules[index + 1].id,
                  FALSE, FALSE)
    /\ UNCHANGED <<scheduleUpdates, markOps, loaded, editVars, auxVars>>

NextApp ==
  \/ LoadData
  \/ Unload
  \/ HandleActiveScheduleIndexChange
  \/ HandleUpdateSchedule
  \/ HandleCreateSchedule
  \/ HandleDeleteSchedule

SpecApp == Init /\ [][NextApp]_vars

(***************************************************************************)
(* CalendarBody (components/CalendarBody.js): the computed properties of    *)
(* the calendar, as functions of the props marks and currentTime.           *)
(***************************************************************************)
\* The id of the mark that is always shown last: the last id of the evening
\* group.
SLEEP_MARK_ID == "sleep"

DAY_CUTOFF_MINUTES == 6 * 60

pixelsPerHour == 60

\* What timeToMinutes returns when a piece of the string is not a number.
NaN == "NaN"

\* CalendarBody.timeToMinutes
timeToMinutes(time) ==
  IF Len(time) = 0 THEN 0
  ELSE LET parts == Split(time)
           h == Number(parts[1])
           m == IF Len(parts) >= 2 THEN Number(parts[2])
                ELSE [nan |-> TRUE, val |-> 0]
       IN IF h.nan \/ m.nan THEN NaN ELSE h.val * 60 + m.val

\* Mutant of MiddleKey: the time of day is the key, with no day cutoff.
MiddleKey_Raw(time) == timeToMinutes(time)

\* The sort key of a middle mark.
MiddleKey(time) ==
  LET t == timeToMinutes(time) IN
  IF t < DAY_CUTOFF_MINUTES THEN t + MINUTES_PER_DAY ELSE t

RECURSIVE MorningPairs(_)
MorningPairs(seq) ==
  IF Len(seq) = 0 THEN <<>>
  ELSE <<<<timeToMinutes(seq[1].time), seq[1]>>>> \o MorningPairs(Tail(seq))

RECURSIVE MiddlePairs(_)
MiddlePairs(seq) ==
  IF Len(seq) = 0 THEN <<>>
  ELSE <<<<MiddleKey(seq[1].time), seq[1]>>>> \o MiddlePairs(Tail(seq))

\* Mutant of sortedMarks: the marks are sorted by time of day and nothing
\* else.
sortedMarks_ByTimeOnly(list) == Seconds(SortPairs(MorningPairs(list)))

\* CalendarBody.sortedMarks
sortedMarks(list) ==
  LET morning == Seconds(SortPairs(MorningPairs(
                   SelectSeq(list, LAMBDA m : m.id \in MORNING_MARKS))))
      found == SelectSeq(list, LAMBDA m : m.id = SLEEP_MARK_ID)
      middle == Seconds(SortPairs(MiddlePairs(
                  SelectSeq(list, LAMBDA m : /\ m.id \notin MORNING_MARKS
                                             /\ m.id # SLEEP_MARK_ID))))
  IN IF found # <<>> THEN morning \o middle \o <<found[1]>>
     ELSE morning \o middle

Max(a, b) == IF a >= b THEN a ELSE b

Min(a, b) == IF a <= b THEN a ELSE b

\* Mutant of timeRange: start and end are not clamped to the day.
timeRange_Unclamped(sorted) ==
  IF Len(sorted) = 0 THEN [start |-> 0, end |-> MINUTES_PER_DAY]
  ELSE [start |-> timeToMinutes(sorted[1].time) - 30,
        end |-> timeToMinutes(sorted[Len(sorted)].time) + 30]

\* CalendarBody.timeRange, from the value of sortedMarks
timeRange(sorted) ==
  IF Len(sorted) = 0 THEN [start |-> 0, end |-> MINUTES_PER_DAY]
  ELSE LET firstMarkTime == timeToMinutes(sorted[1].time)
           lastMarkTime == timeToMinutes(sorted[Len(sorted)].time)
       IN [start |-> Max(0, firstMarkTime - 30),
           end |-> Min(MINUTES_PER_DAY, lastMarkTime + 30)]

rangeWraps(range) == range.end < range.start

totalRangeMinutes(range) ==
  IF rangeWraps(range) THEN (MINUTES_PER_DAY - range.start) + range.end
  ELSE range.end - range.start

minutesFromRangeStart(range, timeMinutes) ==
  IF rangeWraps(range)
    THEN IF timeMinutes >= range.start THEN timeMinutes - range.start
         ELSE (MINUTES_PER_DAY - range.start) + timeMinutes
    ELSE timeMinutes - range.start

\* svgHeight: hours * pixelsPerHour + 100
svgHeight(range) == (totalRangeMinutes(range) * pixelsPerHour) \div 60 + 100

\* CalendarBody.getMarkYPosition(index), index counted from 0
getMarkYPosition(sorted, index) ==
  IF index + 1 \notin 1..Len(sorted) THEN 50
  ELSE (minutesFromRangeStart(timeRange(sorted),
                              timeToMinutes(sorted[index + 1].time))
          * pixelsPerHour) \div 60 + 50

\* Mutant of currentTimeYPosition: a wrapping range is tested like any
\* other.
currentTimeYPosition_NoWrap(sorted, now) ==
  IF Len(sorted) = 0 THEN <<>>
  ELSE LET range == timeRange(sorted) IN
       IF ~(now >= range.start /\ now <= range.end) THEN <<>>
       ELSE <<(minutesFromRangeStart(range, now) * pixelsPerHour) \div 60
              + 50>>

\* CalendarBody.currentTimeYPosition: <<>> is null, <<y>> is the position y;
\* now is currentTime.getHours() * 60 + currentTime.getMinutes().
currentTimeYPosition(sorted, now) ==
  IF Len(sorted) = 0 THEN <<>>
  ELSE LET range == timeRange(sorted)
           inRange ==
             IF rangeWraps(range)
               THEN \/ (now >= range.start /\ now < MINUTES_PER_DAY)
                    \/ (now >= 0 /\ now <= range.end)
               ELSE now >= range.start /\ now <= range.end
       IN IF ~inRange THEN <<>>
          ELSE <<(minutesFromRangeStart(range, now) * pixelsPerHour) \div 60
                 + 50>>

(***************************************************************************)
(* The same computed properties in appData (app.js), which reads them from  *)
(* appData.marks, the marks as getMarks returned them.                      *)
(***************************************************************************)
\* Mutant of appData_sortedMarks: the sleep mark stays with the marks after
\* it.
appData_sortedMarks_SleepFirst(list) ==
  LET wakeIndex == FindIndex(list, "wake")
      sleepIndex == FindIndex(list, SLEEP_MARK_ID)
  IN IF sleepIndex # 0 /\ wakeIndex # 0 /\ sleepIndex < wakeIndex
       THEN SubSeq(list, sleepIndex, Len(list))
            \o SubSeq(list, 1, sleepIndex - 1)
       ELSE list

\* appData.sortedMarks
appData_sortedMarks(list) ==
  LET wakeIndex == FindIndex(list, "wake")
      sleepIndex == FindIndex(list, SLEEP_MARK_ID)
  IN IF sleepIndex # 0 /\ wakeIndex # 0 /\ sleepIndex < wakeIndex
       THEN SubSeq(list, sleepIndex + 1, Len(list))
            \o SubSeq(list, 1, sleepIndex)
       ELSE list

\* appData.timeRange, from the value of sortedMarks
appData_timeRange(sorted) ==
  IF Len(sorted) = 0 THEN [start |-> 0, end |-> MINUTES_PER_DAY]
  ELSE LET firstMarkTime == parseTime(sorted[1].time)
           lastMarkTime == parseTime(sorted[Len(sorted)].time)
       IN [start |-> Max(0, firstMarkTime - 30),
           end |-> Min(MINUTES_PER_DAY, lastMarkTime + 30)]

\* appData.getMarkYPosition(index), index counted from 0
appData_getMarkYPosition(sorted, index) ==
  IF index + 1 \notin 1..Len(sorted) THEN 50
  ELSE (minutesFromRangeStart(appData_timeRange(sorted),
                              parseTime(sorted[index + 1].time))
          * pixelsPerHour) \div 60 + 50

\* appData.currentTimeYPosition; rangeWraps, totalRangeMinutes and
\* minutesFromRangeStart are the same code as in CalendarBody.
appData_currentTimeYPosition(sorted, now) ==
  IF Len(sorted) = 0 THEN <<>>
  ELSE LET range == appData_timeRange(sorted)
           inRange ==
             IF rangeWraps(range)
               THEN \/ (now >= range.start /\ now < MINUTES_PER_DAY)
                    \/ (now >= 0 /\ now <= range.end)
               ELSE now >= range.start /\ now <= range.end
       IN IF ~inRange THEN <<>>
          ELSE <<(minutesFromRangeStart(range, now) * pixelsPerHour) \div 60
                 + 50>>

(***************************************************************************)
(* The calendar is rendered for marks and times drawn from small sets.      *)
(***************************************************************************)
\* The string 'HH:MM' of an hour and a minute.
HHMM(h, m) ==
  <<Digits[(h \div 10) + 1], Digits[(h % 10) + 1], ":",
    Digits[(m \div 10) + 1], Digits[(m % 10) + 1]>>

\* The marks that may be shown, as <<id, time>>: two morning marks, the
\* sleep mark, another evening mark and two user marks, with times on both
\* sides of midnight, of the day cutoff and of wake.
CalendarMarkChoices ==
  { <<"wake", HHMM(7, 0)>>, <<"wake", HHMM(5, 0)>>,
    <<"breakfast", HHMM(7, 30)>>, <<"breakfast", HHMM(6, 30)>>,
    <<"sleep", HHMM(1, 0)>>, <<"sleep", HHMM(23, 0)>>,
    <<"dinner", HHMM(22, 0)>>, <<"dinner", HHMM(0, 30)>>,
    <<"u1", HHMM(5, 59)>>, <<"u1", HHMM(6, 0)>>, <<"u1", HHMM(12, 0)>>,
    <<"u2", HHMM(6, 30)>>, <<"u2", HHMM(23, 45)>> }

CalendarMark(id, time) ==
  [id |-> id, scheduleId |-> "u0", emoji |-> "pin", title |-> id,
   description |-> "", time |-> time]

\* The minutes of the day at which the calendar is rendered.
NowChoices == {0, 90, 91, 389, 390, 12 * 60, MINUTES_PER_DAY - 1}

\* Everything the calendar computes, in CalendarBody and in appData.
Render(list, now) ==
  LET sorted == sortedMarks(list)
      range == timeRange(sorted)
      appSorted == appData_sortedMarks(SortByTime(list))
      appRange == appData_timeRange(appSorted)
  IN [name |-> "render",
      sortedMarks |-> sorted,
      timeRange |-> range,
      rangeWraps |-> rangeWraps(range),
      totalRangeMinutes |-> totalRangeMinutes(range),
      svgHeight |-> svgHeight(range),
      markYPositions |-> [i \in 1..Len(sorted) |->
                            getMarkYPosition(sorted, i - 1)],
      currentTimeYPosition |-> currentTimeYPosition(sorted, now),
      app |-> [sortedMarks |-> appSorted,
               timeRange |-> appRange,
               rangeWraps |-> rangeWraps(appRange),
               totalRangeMinutes |-> totalRangeMinutes(appRange),
               svgHeight |-> svgHeight(appRange),
               markYPositions |-> [i \in 1..Len(appSorted) |->
                                     appData_getMarkYPosition(appSorted,
                                                              i - 1)],
               currentTimeYPosition |->
                 appData_currentTimeYPosition(appSorted, now)]]

InitCalendar ==
  /\ storeSchedules = <<>>
  /\ storeMarks = <<>>
  /\ storeSettings = [activeScheduleId |-> NULL]
  /\ nextId = 0
  /\ scheduleUpdates = 0
  /\ markOps = 0
  /\ loaded = TRUE
  /\ schedules = <<>>
  /\ activeScheduleIndex = 0
  /\ marks = <<>>
  /\ currentTime \in NowChoices
  /\ editingTimeField = NULL
  /\ editingTimeValue = <<>>
  /\ shift = IdleShift
  /\ fault = NoFault
  /\ op = Render(marks, currentTime)

\* The marks prop gets one more mark.
MarkShown ==
  \E c \in CalendarMarkChoices :
    /\ Len(marks) < MaxCalendarMarks
    /\ \A i \in 1..Len(marks) : marks[i].id # c[1]
    /\ marks' = Append(marks, CalendarMark(c[1], c[2]))
    /\ op' = Render(marks', currentTime)
    /\ UNCHANGED <<storeVars, nextId, scheduleUpdates, markOps, loaded,
                   schedules, activeScheduleIndex, editVars, auxVars>>

\* The marks prop loses its last mark.
MarkHidden ==
  /\ Len(marks) > 0
  /\ marks' = SubSeq(marks, 1, Len(marks) - 1)
  /\ op' = Render(marks', currentTime)
  /\ UNCHANGED <<storeVars, nextId, scheduleUpdates, markOps, loaded,
                 schedules, activeScheduleIndex, editVars, auxVars>>

\* startTimeUpdates: the timer sets currentTime.
CurrentTimeUpdated ==
  \E now \in NowChoices :
    /\ currentTime' = now
    /\ op' = Render(marks, now)
    /\ UNCHANGED <<storeVars, nextId, scheduleUpdates, markOps, appVars,
                   editingTimeField, editingTimeValue, auxVars>>

NextCalendar ==
  \/ MarkShown
  \/ MarkHidden
  \/ CurrentTimeUpdated

SpecCalendar == InitCalendar /\ [][NextCalendar]_vars

\* The stored record with the id (the id is stored).
ById(store, id) == store[FindIndex(store, id)]

(***************************************************************************)
(* The application across page loads, with schedules deleted from           *)
(* localStorage while the page is closed.                                   *)
(***************************************************************************)
\* deleteSchedule is called (by another page) while this page is closed.
DeleteWhileClosed ==
  /\ ~loaded
  /\ DeleteSchedule

NextRestore ==
  \/ LoadData
  \/ Unload
  \/ HandleActiveScheduleIndexChange
  \/ HandleCreateSchedule
  \/ DeleteWhileClosed

SpecRestore == Init /\ [][NextRestore]_vars

(***************************************************************************)
(* getTimeDelta on pairs of 'HH:MM' strings.                                *)
(***************************************************************************)
\* Every hour of the day, at minutes 0, 1, 30 and 59.
TimeChoices == {HHMM(h, m) : h \in 0..23, m \in {0, 1, 30, 59}}

InitTime ==
  /\ storeSchedules = <<>>
  /\ storeMarks = <<>>
  /\ storeSettings = [activeScheduleId |-> NULL]
  /\ nextId = 0
  /\ scheduleUpdates = 0
  /\ markOps = 0
  /\ loaded = FALSE
  /\ schedules = <<>>
  /\ activeScheduleIndex = 0
  /\ marks = <<>>
  /\ currentTime = parseTime(T1200)
  /\ editingTimeField = NULL
  /\ editingTimeValue = <<>>
  /\ shift = IdleShift
  /\ fault = NoFault
  /\ \E oldTime \in TimeChoices, newTime \in TimeChoices :
       op = [name |-> "arguments", oldTime |-> oldTime, newTime |-> newTime]

GetTimeDelta ==
  /\ op.name = "arguments"
  /\ op' = [name |-> "getTimeDelta", oldTime |-> op.oldTime,
            newTime |-> op.newTime,
            result |-> getTimeDelta(op.oldTime, op.newTime)]
  /\ UNCHANGED <<storeVars, nextId, scheduleUpdates, markOps, appVars,
                 editVars, auxVars>>

NextTime == GetTimeDelta

SpecTime == InitTime /\ [][NextTime]_vars

(***************************************************************************)
(* The time codec on its own: parseTime and formatTime composed both ways. *)
(***************************************************************************)
\* Every 'HH:MM' string with hour 00-23 and minute 00-59.
ValidTimes == {HHMM(h, m) : h \in 0..23, m \in 0..59}

\* The characters of the strings tried: digits, the colon, a blank and a
\* letter.
Alphabet == {"0", "2", "4", "6", ":", " ", "a"}

Strings == UNION {[1..n -> Alphabet] : n \in 0..MaxStringLen}

\* The arguments tried: every string over Alphabet, and null, undefined and
\* a number.
TimeArguments ==
  {[type |-> "string", value |-> str] : str \in Strings}
    \cup {[type |-> t, value |-> <<>>] : t \in {"null", "undefined", "number"}}

\* typeof time === 'string'
IsString(x) == x.type = "string"

InitCodec ==
  /\ storeSchedules = <<>>
  /\ storeMarks = <<>>
  /\ storeSettings = [activeScheduleId |-> NULL]
  /\ nextId = 0
  /\ scheduleUpdates = 0
  /\ markOps = 0
  /\ loaded = FALSE
  /\ schedules = <<>>
  /\ activeScheduleIndex = 0
  /\ marks = <<>>
  /\ currentTime = parseTime(T1200)
  /\ editingTimeField = NULL
  /\ editingTimeValue = <<>>
  /\ shift = IdleShift
  /\ fault = NoFault
  /\ \/ \E t \in ValidTimes : op = [name |-> "time", time |-> t]
     \/ \E m \in (-MaxMinutes)..MaxMinutes :
          op = [name |-> "minutes", minutes |-> m]
     \/ \E x \in TimeArguments : op = [name |-> "argument", input |-> x]

\* formatTime(parseTime(time))
FormatParsed ==
  /\ op.name = "time"
  /\ op' = [name |-> "formatTime(parseTime)", time |-> op.time,
            minutes |-> parseTime(op.time),
            result |-> formatTime(parseTime(op.time))]
  /\ UNCHANGED <<storeVars, nextId, scheduleUpdates, markOps, appVars,
                 editVars, auxVars>>

\* parseTime(formatTime(minutes))
ParseFormatted ==
  /\ op.name = "minutes"
  /\ op' = [name |-> "parseTime(formatTime)", minutes |-> op.minutes,
            time |-> formatTime(op.minutes),
            result |-> parseTime(formatTime(op.minutes))]
  /\ UNCHANGED <<storeVars, nextId, scheduleUpdates, markOps, appVars,
                 editVars, auxVars>>

\* parseTime(time) for any argument: no statement of it throws.
ParseTime ==
  /\ op.name = "argument"
  /\ op' = [name |-> "parseTime", input |-> op.input, threw |-> FALSE,
            result |-> IF IsString(op.input) THEN parseTime(op.input.value)
                       ELSE 0]
  /\ UNCHANGED <<storeVars, nextId, scheduleUpdates, markOps, appVars,
                 editVars, auxVars>>

\* normalizeTime(time) and isValidTime(time) for any argument.
NormalizeTime ==
  /\ op.name = "argument"
  /\ op' = [name |-> "normalizeTime", input |-> op.input,
            result |-> IF IsString(op.input)
                         THEN normalizeTime(op.input.value) ELSE <<>>,
            valid |-> IF IsString(op.input)
                        THEN isValidTime(op.input.value) ELSE FALSE]
  /\ UNCHANGED <<storeVars, nextId, scheduleUpdates, markOps, appVars,
                 editVars, auxVars>>

NextCodec ==
  \/ FormatParsed
  \/ ParseFormatted
  \/ ParseTime
  \/ NormalizeTime

SpecCodec == InitCodec /\ [][NextCodec]_vars

(***************************************************************************)
(* Schedules created, deleted and moved through the day, any number of     *)
(* times, with no call that edits a mark.                                   *)
(***************************************************************************)
\* The data argument of updateSchedule: one new time, 12 hours from another,
\* after midnight or before it.
TimeData ==
  {[wakeTime |-> t] : t \in {T0700, T1900, HHMM(23, 30), HHMM(0, 15)}}
    \cup {[bedtime |-> t] : t \in {T2200, HHMM(10, 0), T0100}}

UpdateScheduleTimes ==
  \E id \in StoredScheduleIds, data \in TimeData :
    \E r \in {ScheduleService_updateSchedule(storeSchedules, storeMarks,
                                              id, data)} :
       /\ storeSchedules' = r.schedules
       /\ storeMarks' = r.marks
       /\ op' = Call("updateSchedule", id, r.threw, r.shifted)
       /\ UNCHANGED <<storeSettings, nextId, scheduleUpdates, markOps,
                      appVars, editVars, auxVars>>

NextAnchor ==
  \/ CreateSchedule
  \/ UpdateScheduleTimes
  \/ DeleteSchedule

SpecAnchor == Init /\ [][NextAnchor]_vars

(***************************************************************************)
(* Editing wakeTime and bedtime in the header.                              *)
(***************************************************************************)
\* What is typed into the time input.
TimeInputs ==
  {<<"7">>, <<" ", "8", ":", "3", "0", " ">>, <<"2", "3", ":", "1", "5">>,
   <<"0", ":", "0", "0">>,
   <<>>, <<" ", " ">>, <<"2", "4">>, <<"7", ":", "5">>,
   <<"1", "2", ":", "6", "0">>, <<"2", "4", ":", "0", "0">>,
   <<"1", "2", "3">>, <<"a", "b">>, <<"7", ":", "3", "0", "0">>,
   <<":", "3", "0">>, <<"7", ".", "3", "0">>}

\* Mutant of EditedData: the value is handed on as it was typed.
EditedData_Raw(field, value) ==
  IF Len(value) = 0 THEN <<>> ELSE <<[k \in {field} |-> Trim(value)]>>

\* The data applyTimeEdit hands to handleUpdateSchedule, in a one-element
\* sequence; empty when normalizeTime returned null.
EditedData(field, value) ==
  IF normalizeTime(value) = <<>> THEN <<>>
  ELSE <<[k \in {field} |-> normalizeTime(value)]>>

StartEditingTime ==
  \E field \in {"wakeTime", "bedtime"} :
    /\ loaded
    /\ ActiveScheduleOf(schedules, activeScheduleIndex) # <<>>
    /\ editingTimeField' = field
    /\ editingTimeValue' =
         LET v == ActiveScheduleOf(schedules, activeScheduleIndex)[1][field]
         IN IF v # <<>> THEN v ELSE T0700
    /\ op' = Call("startEditingTime", NULL, FALSE, FALSE)
    /\ UNCHANGED <<storeVars, nextId, scheduleUpdates, markOps, appVars,
                   currentTime, auxVars>>

\* x-model="editingTimeValue": the input is shown while a field is edited.
TimeTyped ==
  \E value \in TimeInputs :
    /\ editingTimeField # NULL
    /\ editingTimeValue' = value
    /\ op' = Call("input", NULL, FALSE, FALSE)
    /\ UNCHANGED <<storeVars, nextId, scheduleUpdates, markOps, appVars,
                   currentTime, editingTimeField, auxVars>>

CancelEditingTime ==
  /\ editingTimeField # NULL
  /\ editingTimeField' = NULL
  /\ editingTimeValue' = <<>>
  /\ op' = Call("cancelEditingTime", NULL, FALSE, FALSE)
  /\ UNCHANGED <<storeVars, nextId, scheduleUpdates, markOps, appVars,
                 currentTime, auxVars>>

\* Enter or the apply button: applyTimeEdit, with handleUpdateSchedule
\* inside it.
ApplyTimeEdit ==
  /\ editingTimeField # NULL
  /\ LET data == EditedData(editingTimeField, editingTimeValue)
         current == ActiveScheduleOf(schedules, activeScheduleIndex)
         info == [field |-> editingTimeField, value |-> editingTimeValue]
     IN IF data = <<>> \/ current = <<>>
          THEN /\ editingTimeField' = NULL
               /\ editingTimeValue' = <<>>
               /\ op' = Merge(Call("applyTimeEdit", NULL, FALSE, FALSE),
                              Merge(info, [emitted |-> data # <<>>]))
               /\ UNCHANGED <<storeSchedules, storeMarks, schedules, marks,
                              scheduleUpdates>>
          ELSE /\ scheduleUpdates < MaxAppUpdates
               /\ \E r \in {ScheduleService_updateSchedule(
                               storeSchedules, storeMarks, current[1].id,
                               data[1])} :
                    /\ storeSchedules' = r.schedules
                    /\ storeMarks' = r.marks
                    /\ op' = Merge(Call("applyTimeEdit", current[1].id,
                                        r.threw, r.shifted),
                                   Merge(info, [emitted |-> TRUE]))
                    /\ IF r.threw
                         THEN UNCHANGED <<schedules, marks, editingTimeField,
                                          editingTimeValue>>
                         ELSE /\ schedules' =
                                   [schedules EXCEPT
                                      ![activeScheduleIndex + 1] = r.saved]
                              /\ marks' = MarkService_getMarks(r.marks,
                                                               r.saved.id)
                              /\ editingTimeField' = NULL
                              /\ editingTimeValue' = <<>>
               /\ scheduleUpdates' = scheduleUpdates + 1
  /\ UNCHANGED <<storeSettings, nextId, markOps, loaded,
                 activeScheduleIndex, currentTime, auxVars>>

NextEdit ==
  \/ LoadData
  \/ StartEditingTime
  \/ TimeTyped
  \/ CancelEditingTime
  \/ ApplyTimeEdit

SpecEdit == Init /\ [][NextEdit]_vars

(***************************************************************************)
(* The application on a localStorage that fails.                            *)
(***************************************************************************)
\* localStorage starts or stops failing; the list under a key whose text is
\* no longer JSON is lost.
StorageFault ==
  \E u \in BOOLEAN, q \in BOOLEAN, keys \in SUBSET STORAGE_KEYS :
    /\ fault' = [unavailable |-> u, full |-> q,
                 corrupt |-> fault.corrupt \cup keys]
    /\ fault' # fault
    /\ storeSchedules' = IF "schedules" \in keys THEN <<>>
                         ELSE storeSchedules
    /\ storeMarks' = IF "marks" \in keys THEN <<>> ELSE storeMarks
    /\ storeSettings' = IF "settings" \in keys THEN DEFAULT_SETTINGS
                        ELSE storeSettings
    /\ op' = Call("storageFault", NULL, FALSE, FALSE)
    /\ UNCHANGED <<nextId, scheduleUpdates, markOps, appVars, editVars,
                   shift>>

NextFault ==
  \/ LoadData
  \/ Unload
  \/ HandleActiveScheduleIndexChange
  \/ HandleCreateSchedule
  \/ StorageFault

SpecFault == Init /\ [][NextFault]_vars

(***************************************************************************)
(* Two tabs on one localStorage.  One tab runs updateSchedule one storage   *)
(* access at a time: the schedule is saved and the marks are read, then     *)
(* each forEach iteration of shiftDefaultMarks is a step of its own.  The   *)
(* other tab calls createSchedule, updateMark and deleteMark in between.    *)
(***************************************************************************)
\* updateSchedule up to the read of the marks in shiftDefaultMarks.
BeginUpdateSchedule ==
  \E id \in StoredScheduleIds, data \in ScheduleData :
    /\ shift.pc # "saving"
    /\ scheduleUpdates < MaxScheduleUpdates
    /\ LET currentSchedule == ById(storeSchedules, id)
           oldWakeTime == currentSchedule.wakeTime
           oldBedtime == currentSchedule.bedtime
           wakeTimeChanged == TimeChanged(data, "wakeTime", oldWakeTime)
           bedtimeChanged == TimeChanged(data, "bedtime", oldBedtime)
       IN \E r \in {ScheduleRepository_save(
                       storeSchedules, Merge(currentSchedule, data), 0)} :
            /\ storeSchedules' = r.store
            /\ IF wakeTimeChanged \/ bedtimeChanged
                 THEN /\ shift' =
                           [pc |-> "saving", id |-> id,
                            marks |-> MarkRepository_getByScheduleId(
                                        storeMarks, id),
                            k |-> 1,
                            wakeDelta |-> getTimeDelta(oldWakeTime,
                                                       r.saved.wakeTime),
                            bedDelta |-> getTimeDelta(oldBedtime,
                                                      r.saved.bedtime),
                            before |-> storeMarks, last |-> storeMarks,
                            interfered |-> FALSE]
                      /\ op' = Call("beginShift", id, FALSE, TRUE)
                 ELSE /\ shift' = IdleShift
                      /\ op' = Call("updateSchedule", id, FALSE, FALSE)
    /\ scheduleUpdates' = scheduleUpdates + 1
    /\ UNCHANGED <<storeMarks, storeSettings, nextId, markOps, appVars,
                   editVars, fault>>

\* One iteration of marks.forEach in shiftDefaultMarks: the copy of the mark
\* that was read at the start is shifted and saved.
SaveShiftedMark ==
  /\ shift.pc = "saving"
  /\ shift.k <= Len(shift.marks)
  /\ \E r \in {ShiftOne(storeMarks, shift.marks[shift.k], shift.wakeDelta,
                         shift.bedDelta)} :
       /\ storeMarks' = r
       /\ shift' = [shift EXCEPT
                      !.k = @ + 1,
                      !.last = r,
                      !.interfered = @ \/ storeMarks # shift.last]
  /\ op' = Call("saveShiftedMark", shift.marks[shift.k].id, FALSE, TRUE)
  /\ UNCHANGED <<storeSchedules, storeSettings, nextId, scheduleUpdates,
                 markOps, appVars, editVars, fault>>

\* forEach is over: shiftDefaultMarks and updateSchedule return.
ReturnFromUpdateSchedule ==
  /\ shift.pc = "saving"
  /\ shift.k > Len(shift.marks)
  /\ shift' = [shift EXCEPT
                 !.pc = "done",
                 !.interfered = @ \/ storeMarks # shift.last]
  /\ op' = Call("updateSchedule", shift.id, FALSE, TRUE)
  /\ UNCHANGED <<storeVars, nextId, scheduleUpdates, markOps, appVars,
                 editVars, fault>>

NextTabs ==
  \/ CreateSchedule
  \/ BeginUpdateSchedule
  \/ SaveShiftedMark
  \/ ReturnFromUpdateSchedule
  \/ UpdateMark
  \/ DeleteMark

SpecTabs == Init /\ [][NextTabs]_vars

(***************************************************************************)
(* Properties.                                                             *)
(***************************************************************************)
MarksOfSchedule(store, scheduleId) ==
  SelectSeq(store, LAMBDA m : m.scheduleId = scheduleId)

UserMarks(store) == {m \in Range(store) : m.id \notin DEFAULT_MARK_IDS}

DefaultMarks(store) == {m \in Range(store) : m.id \in DEFAULT_MARK_IDS}

T0730 == <<"0", "7", ":", "3", "0">>

\* C1: when updateSchedule changes wakeTime and/or bedtime of a schedule,
\* every morning default mark of the schedule gets
\* time = shiftTime(old time, getTimeDelta(old wake, new wake)) and every
\* evening default mark gets
\* time = shiftTime(old time, getTimeDelta(old bedtime, new bedtime)); a
\* group whose anchor did not change keeps its times.
C1_ShiftByGroupDelta ==
  [][(op'.name = "updateSchedule" /\ op'.shifted) =>
       LET old == ById(storeSchedules, op'.id)
           new == ById(storeSchedules', op'.id)
           wakeDelta == getTimeDelta(old.wakeTime, new.wakeTime)
           bedDelta == getTimeDelta(old.bedtime, new.bedtime)
       IN \A m \in DefaultMarks(storeMarks) :
            m.scheduleId = op'.id =>
              /\ FindIndex(storeMarks', m.id) # 0
              /\ LET after == ById(storeMarks', m.id) IN
                 /\ m.id \in MORNING_MARKS =>
                      /\ after.time = shiftTime(m.time, wakeDelta)
                      /\ new.wakeTime = old.wakeTime => after.time = m.time
                 /\ m.id \in EVENING_MARKS =>
                      /\ after.time = shiftTime(m.time, bedDelta)
                      /\ new.bedtime = old.bedtime => after.time = m.time
    ]_vars

\* An updateSchedule has just moved wake from 07:00 to 08:00 and kept
\* bedtime 22:00: the wake mark is at 08:00 and the sleep mark at 22:00.
C1_Witness ==
  /\ op.name = "updateSchedule"
  /\ op.shifted
  /\ FindIndex(storeSchedules, op.id) # 0
  /\ ById(storeSchedules, op.id).wakeTime = T0800
  /\ ById(storeSchedules, op.id).bedtime = T2200
  /\ \E m \in Range(storeMarks) :
       m.id = "wake" /\ m.scheduleId = op.id /\ m.time = T0800
  /\ \E m \in Range(storeMarks) :
       m.id = "sleep" /\ m.scheduleId = op.id /\ m.time = T2200

\* C2: createSchedule, updateSchedule and shiftDefaultMarks leave every
\* stored user mark (a mark whose id is not a default id) as it was, field
\* by field.
C2_UserMarksUntouched ==
  [][op'.name \in {"createSchedule", "updateSchedule", "shiftDefaultMarks"}
       => /\ UserMarks(storeMarks') = UserMarks(storeMarks)
          /\ \A i \in 1..Len(storeMarks) :
               storeMarks[i].id \notin DEFAULT_MARK_IDS =>
                 /\ i <= Len(storeMarks')
                 /\ storeMarks'[i] = storeMarks[i]
    ]_vars

\* A shift has just run on a schedule that holds a user mark and a default
\* mark.
C2_Witness ==
  /\ op.name \in {"updateSchedule", "shiftDefaultMarks"}
  /\ op.shifted
  /\ \E m \in UserMarks(storeMarks) : m.scheduleId = op.id
  /\ \E m \in DefaultMarks(storeMarks) : m.scheduleId = op.id

\* C3: after createSchedule the new schedule has exactly 8 marks, one per
\* template id, each with the template's emoji, title and description and
\* time = formatTime(parseTime(anchor) + offset), the anchor being the
\* schedule's wakeTime for a morning template and its bedtime for an evening
\* template.
C3_DefaultMarksCreated ==
  op.name = "createSchedule" =>
    LET schedule == ById(storeSchedules, op.id)
        own == MarksOfSchedule(storeMarks, op.id)
    IN /\ FindIndex(storeSchedules, op.id) # 0
       /\ Len(own) = 8
       /\ {m.id : m \in Range(own)} = DEFAULT_MARK_IDS
       /\ \A m \in Range(own) :
            LET template == TemplateOf(m.id)
                anchor == IF m.id \in MORNING_MARKS THEN schedule.wakeTime
                          ELSE schedule.bedtime
            IN /\ m.emoji = template.emoji
               /\ m.title = template.title
               /\ m.description = template.description
               /\ m.time = formatTime(parseTime(anchor)
                                      + template.offsetMinutes)
       /\ (schedule.wakeTime = T0700 /\ schedule.bedtime = T2200) =>
            /\ ById(storeMarks, "breakfast").time = T0730
            /\ ById(storeMarks, "dinner").time = T1900

\* createSchedule('Work') has just run with the default 07:00 and 22:00.
C3_Witness ==
  /\ op.name = "createSchedule"
  /\ ById(storeSchedules, op.id).wakeTime = T0700
  /\ ById(storeSchedules, op.id).bedtime = T2200
  /\ \E m \in Range(storeMarks) : m.id = "dinner" /\ m.time = T1900

\* C4: createSchedule, updateSchedule and deleteSchedule never change the
\* scheduleId, emoji, title or description of a default mark that is stored
\* before the call and after it.
C4_DefaultMarkFieldsKept ==
  [][op'.name \in {"createSchedule", "updateSchedule", "deleteSchedule"} =>
       \A m \in DefaultMarks(storeMarks) :
         \A after \in Range(storeMarks') :
           after.id = m.id =>
             /\ after.scheduleId = m.scheduleId
             /\ after.emoji = m.emoji
             /\ after.title = m.title
             /\ after.description = m.description
    ]_vars

\* C5 (as claimed): every stored mark has the scheduleId of a stored
\* schedule, and the default marks of a schedule have template ids, at most
\* one mark per id.
C5_MarksBelongToSchedules ==
  /\ \A m \in Range(storeMarks) : m.scheduleId \in StoredScheduleIds
  /\ \A i, j \in 1..Len(storeMarks) :
       (/\ storeMarks[i].id \in DEFAULT_MARK_IDS
        /\ storeMarks[i].id = storeMarks[j].id
        /\ storeMarks[i].scheduleId = storeMarks[j].scheduleId) => i = j

\* C5 (amended): every stored mark whose scheduleId was the id of a stored
\* schedule when createMark or updateMark set it has the scheduleId of a
\* stored schedule (createMark and updateMark store a scheduleId that no
\* schedule has as it is given), and the default marks of a schedule have
\* template ids, at most one mark per id.
C5_MarksOfKnownSchedulesBelong ==
  /\ \A m \in Range(storeMarks) :
       m.scheduleId # GhostId => m.scheduleId \in StoredScheduleIds
  /\ \A i, j \in 1..Len(storeMarks) :
       (/\ storeMarks[i].id \in DEFAULT_MARK_IDS
        /\ storeMarks[i].id = storeMarks[j].id
        /\ storeMarks[i].scheduleId = storeMarks[j].scheduleId) => i = j

\* A schedule that had marks has just been deleted while another schedule
\* and a mark are still stored.
C5_Witness ==
  /\ op.name = "deleteSchedule"
  /\ op.id \in {generateUUID(0), generateUUID(1)}
  /\ storeSchedules # <<>>
  /\ storeMarks # <<>>
  /\ \A m \in Range(storeMarks) : m.scheduleId \in StoredScheduleIds

\* C6: after deleteSchedule(id) no stored schedule has the id, no stored
\* mark has scheduleId = id, and the other schedules and the marks of other
\* schedules are stored as before, in the same order.
C6_DeleteCascades ==
  [][op'.name = "deleteSchedule" =>
       /\ \A s \in Range(storeSchedules') : s.id # op'.id
       /\ \A m \in Range(storeMarks') : m.scheduleId # op'.id
       /\ Range(storeSchedules') =
            {s \in Range(storeSchedules) : s.id # op'.id}
       /\ Range(storeMarks') =
            {m \in Range(storeMarks) : m.scheduleId # op'.id}
       /\ \A i, j \in 1..Len(storeMarks') :
            i < j => FindIndex(storeMarks, storeMarks'[i].id)
                       < FindIndex(storeMarks, storeMarks'[j].id)
       /\ Len(storeSchedules') =
            Cardinality({i \in 1..Len(storeSchedules) :
                           storeSchedules[i].id # op'.id})
    ]_vars

\* The second schedule created, which held the default marks, has just been
\* deleted; the first schedule is still stored.
C6_Witness ==
  /\ op.name = "deleteSchedule"
  /\ op.id = generateUUID(1)
  /\ Len(storeSchedules) = 1
  /\ storeSchedules[1].id = generateUUID(0)
  /\ nextId = 2
  /\ storeMarks = <<>>

\* C7: handleDeleteSchedule on the only schedule leaves exactly one
\* schedule, the default one (default label, 07:00, 22:00) with its 8 default
\* marks; it is the active schedule and appData.marks holds its marks.
C7_LastScheduleReplaced ==
  (op.name = "handleDeleteSchedule" /\ op.before = 1) =>
    /\ Len(storeSchedules) = 1
    /\ schedules = storeSchedules
    /\ storeSchedules[1].id # op.id
    /\ storeSchedules[1].name = "Obychnyy den"
    /\ storeSchedules[1].wakeTime = T0700
    /\ storeSchedules[1].bedtime = T2200
    /\ Len(storeMarks) = 8
    /\ \A t \in Range(DEFAULT_MARK_TEMPLATES) :
         \E m \in Range(storeMarks) :
           /\ m.id = t.id
           /\ m.scheduleId = storeSchedules[1].id
           /\ m.time = formatTime(
                parseTime(IF t.id \in MORNING_MARKS THEN T0700 ELSE T2200)
                + t.offsetMinutes)
    /\ activeScheduleIndex = 0
    /\ storeSettings.activeScheduleId = storeSchedules[1].id
    /\ Len(marks) = 8
    /\ Range(marks) = Range(storeMarks)

\* The only schedule has just been deleted through handleDeleteSchedule.
C7_Witness ==
  /\ op.name = "handleDeleteSchedule"
  /\ op.before = 1
  /\ Len(marks) = 8

\* C8: once loadData has run, appData.schedules is not empty and
\* activeScheduleIndex is the index of one of its entries.
C8_ScheduleListNeverEmpty ==
  loaded =>
    /\ Len(schedules) >= 1
    /\ activeScheduleIndex \in 0..(Len(schedules) - 1)

\* The last tab was active and has just been deleted, others remain.
C8_Witness ==
  /\ loaded
  /\ op.name = "handleDeleteSchedule"
  /\ op.before = 2
  /\ Len(schedules) = 1
  /\ activeScheduleIndex = 0
  /\ storeSettings.activeScheduleId = schedules[1].id
  /\ schedules[1].id = generateUUID(0)

\* C9: an updateSchedule that leaves wakeTime and bedtime of the schedule
\* as they were (a rename, or times equal to the stored ones) does not run
\* shiftDefaultMarks and leaves the mark store as it was.
C9_NoShiftWithoutTimeChange ==
  [][(op'.name = "updateSchedule" /\ ~op'.threw) =>
       LET old == ById(storeSchedules, op'.id)
           new == ById(storeSchedules', op'.id)
       IN (new.wakeTime = old.wakeTime /\ new.bedtime = old.bedtime) =>
            /\ ~op'.shifted
            /\ storeMarks' = storeMarks
    ]_vars

\* An updateSchedule has just run without a shift on a schedule that has
\* default marks.
C9_Witness ==
  /\ op.name = "updateSchedule"
  /\ ~op.threw
  /\ ~op.shifted
  /\ \E m \in DefaultMarks(storeMarks) : m.scheduleId = op.id

\* C10: updateMark and updateSchedule with an id that is not stored raise
\* an error and leave the schedule store and the mark store as they were.
C10_UpdateUnknownIdFails ==
  [][/\ (op'.name = "updateMark" /\ op'.id \notin StoredMarkIds) =>
          /\ op'.threw
          /\ storeSchedules' = storeSchedules
          /\ storeMarks' = storeMarks
     /\ (op'.name = "updateSchedule" /\ op'.id \notin StoredScheduleIds) =>
          /\ op'.threw
          /\ storeSchedules' = storeSchedules
          /\ storeMarks' = storeMarks
     /\ (op'.name = "updateMark" /\ op'.id \in StoredMarkIds) =>
          ~op'.threw
     /\ (op'.name = "updateSchedule" /\ op'.id \in StoredScheduleIds) =>
          ~op'.threw
    ]_vars

\* updateMark has just failed on an id that is not stored, with marks and
\* schedules in the stores.
C10_Witness ==
  /\ op.name = "updateMark"
  /\ op.threw
  /\ op.id = GhostId
  /\ storeMarks # <<>>
  /\ storeSchedules # <<>>

\* C11: (a) when updateSchedule runs to completion with no write of another
\* tab in between, the stored marks are those of the uninterrupted
\* shiftDefaultMarks: every default mark of a group whose delta is not 0 has
\* been moved by that delta and none is left at its old time; (b) each
\* forEach iteration saves the copy read at the start, so a mark the other
\* tab updated since is overwritten by that copy and a mark the other tab
\* deleted since is stored again.
C11_ShiftAllOrNothing ==
  [][/\ (op'.name = "updateSchedule" /\ shift.pc = "saving"
         /\ ~shift'.interfered) =>
          /\ storeMarks' = ShiftEach(shift.before, shift.marks,
                                     shift.wakeDelta, shift.bedDelta)
          /\ \A m \in DefaultMarks(shift.marks) :
               LET delta == MarkDelta(m.id, shift.wakeDelta, shift.bedDelta)
               IN delta # 0 =>
                    /\ ById(storeMarks', m.id).time = shiftTime(m.time, delta)
                    /\ ById(storeMarks', m.id).time # m.time
     /\ op'.name = "saveShiftedMark" =>
          LET m == shift.marks[shift.k]
              delta == MarkDelta(m.id, shift.wakeDelta, shift.bedDelta)
          IN (m.id \in DEFAULT_MARK_IDS /\ delta # 0) =>
               /\ m.id \in {x.id : x \in Range(storeMarks')}
               /\ ById(storeMarks', m.id) =
                    [m EXCEPT !.time = shiftTime(m.time, delta)]
    ]_vars

\* updateSchedule has returned after the other tab changed or deleted a mark
\* between the read and the save of that mark, and the stored marks are
\* those of the uninterrupted call: the other tab's write is gone.
C11_Witness ==
  /\ shift.pc = "done"
  /\ op.name = "updateSchedule"
  /\ shift.interfered
  /\ storeMarks = ShiftEach(shift.before, shift.marks, shift.wakeDelta,
                            shift.bedDelta)

\* The time of day of an 'HH:MM' string, digit by digit.
TimeOfDay(time) ==
  (DigitVal(time[1]) * 10 + DigitVal(time[2])) * 60
  + DigitVal(time[4]) * 10 + DigitVal(time[5])

\* The id of the last template of the evening group.
SleepTemplateId == EVENING_MARK_TEMPLATES[Len(EVENING_MARK_TEMPLATES)].id

\* 1 for a morning mark, 3 for the sleep mark, 2 for any other mark.
OrderGroup(m) ==
  IF m.id \in {t.id : t \in Range(MORNING_MARK_TEMPLATES)} THEN 1
  ELSE IF m.id = SleepTemplateId THEN 3
  ELSE 2

\* The key a mark is ordered by inside its group.
OrderKey(m) ==
  IF OrderGroup(m) = 2 /\ TimeOfDay(m.time) < 6 * 60
    THEN TimeOfDay(m.time) + 24 * 60
    ELSE TimeOfDay(m.time)

\* C12: CalendarBody.sortedMarks holds every mark of the marks prop exactly
\* once: first the morning marks by ascending time of day, then every other
\* mark but the sleep mark by ascending shifted key (time of day, plus 1440
\* when it is before 06:00), then the sleep mark.
C12_SortedMarksOrder ==
  op.name = "render" =>
    LET sorted == op.sortedMarks IN
    /\ Len(sorted) = Len(marks)
    /\ \A m \in Range(marks) :
         Cardinality({i \in 1..Len(sorted) : sorted[i] = m}) = 1
    /\ \A i, j \in 1..Len(sorted) :
         i < j =>
           /\ OrderGroup(sorted[i]) <= OrderGroup(sorted[j])
           /\ OrderGroup(sorted[i]) = OrderGroup(sorted[j]) =>
                OrderKey(sorted[i]) <= OrderKey(sorted[j])

\* A user mark at 05:59 that came first in the prop is shown after the
\* dinner mark at 22:00 and before the sleep mark at 01:00.
C12_Witness ==
  /\ op.name = "render"
  /\ Len(marks) = 3
  /\ marks[1].id = "u1" /\ marks[1].time = HHMM(5, 59)
  /\ marks[2].id = "sleep" /\ marks[2].time = HHMM(1, 0)
  /\ marks[3].id = "dinner" /\ marks[3].time = HHMM(22, 0)
  /\ op.sortedMarks = <<marks[3], marks[1], marks[2]>>

\* The marks prop holds a sleep mark at 01:00 and a wake mark at 07:00.
SleepAfterMidnight ==
  /\ \E m \in Range(marks) : m.id = SleepTemplateId /\ m.time = HHMM(1, 0)
  /\ \E m \in Range(marks) : m.id = "wake" /\ m.time = HHMM(7, 0)

\* C13 (as claimed): with a sleep mark at 01:00 and a wake mark at 07:00, the
\* sleep mark and every mark whose time of day is before the wake mark's are
\* at the end of sortedMarks: they come after every mark whose time of day
\* is not before the wake mark's.
C13_BeforeWakeAtEnd ==
  (op.name = "render" /\ SleepAfterMidnight) =>
    LET sorted == op.sortedMarks
        Early(m) == m.id = SleepTemplateId \/ TimeOfDay(m.time) < 7 * 60
    IN \A i, j \in 1..Len(sorted) :
         (Early(sorted[i]) /\ ~Early(sorted[j])) => j < i

\* C13 (amended): with a sleep mark at 01:00 and a wake mark at 07:00,
\* CalendarBody.sortedMarks starts with a morning mark and ends with the
\* sleep mark, and every mark that is neither a morning mark nor the sleep
\* mark and whose time of day is before 06:00 comes after every morning mark
\* and after every such mark at 06:00 or later; appData.sortedMarks ends with
\* the sleep mark too, and there the marks before 01:00 come after the marks
\* after 01:00.
C13_SleepLastEarlyMiddleAtEnd ==
  (op.name = "render" /\ SleepAfterMidnight) =>
    LET sorted == op.sortedMarks
        appSorted == op.app.sortedMarks
    IN /\ sorted[Len(sorted)].id = SleepTemplateId
       /\ OrderGroup(sorted[1]) = 1
       /\ \A i, j \in 1..Len(sorted) :
            (/\ OrderGroup(sorted[i]) = 2
             /\ TimeOfDay(sorted[i].time) < 6 * 60
             /\ \/ OrderGroup(sorted[j]) = 1
                \/ /\ OrderGroup(sorted[j]) = 2
                   /\ TimeOfDay(sorted[j].time) >= 6 * 60) => j < i
       /\ appSorted[Len(appSorted)].id = SleepTemplateId
       /\ \A i, j \in 1..Len(appSorted) :
            (/\ TimeOfDay(appSorted[i].time) < 60
             /\ TimeOfDay(appSorted[j].time) > 60) => j < i

\* The calendar shows wake at 07:00, a user mark at 05:59 and sleep at 01:00,
\* in this order.
C13_Witness ==
  /\ op.name = "render"
  /\ SleepAfterMidnight
  /\ Len(op.sortedMarks) = 3
  /\ op.sortedMarks[1].id = "wake"
  /\ op.sortedMarks[2].id = "u1" /\ op.sortedMarks[2].time = HHMM(5, 59)
  /\ op.sortedMarks[3].id = SleepTemplateId

\* What C14 says of one rendering: v holds sortedMarks, timeRange, rangeWraps
\* and totalRangeMinutes.
RangeAsSpecified(v) ==
  LET n == Len(v.sortedMarks)
      first == TimeOfDay(v.sortedMarks[1].time)
      last == TimeOfDay(v.sortedMarks[n].time)
      start == v.timeRange.start
      end == v.timeRange.end
  IN /\ n = 0 => (start = 0 /\ end = 1440)
     /\ n > 0 =>
          /\ start = (IF first - 30 < 0 THEN 0 ELSE first - 30)
          /\ end = (IF last + 30 > 1440 THEN 1440 ELSE last + 30)
     /\ v.rangeWraps <=> (end < start)
     /\ ~v.rangeWraps => v.totalRangeMinutes = end - start
     /\ v.rangeWraps => v.totalRangeMinutes = (1440 - start) + end

\* C14: for a non-empty mark set the visible range is
\* start = max(0, first - 30) and end = min(1440, last + 30), first and last
\* being the times of the first and the last mark of sortedMarks; it wraps
\* exactly when end < start; totalRangeMinutes is end - start, or
\* (1440 - start) + end when it wraps; for no marks the range is 0..1440.
\* This holds of CalendarBody and of appData.
C14_VisibleRange ==
  op.name = "render" => (RangeAsSpecified(op) /\ RangeAsSpecified(op.app))

\* Wake at 07:00 is shown first and sleep at 01:00 last: the range is
\* 06:30..01:30, it wraps and is 1140 minutes long.
C14_Witness ==
  /\ op.name = "render"
  /\ SleepAfterMidnight
  /\ op.sortedMarks[1].id = "wake"
  /\ op.timeRange = [start |-> 390, end |-> 90]
  /\ op.rangeWraps
  /\ op.totalRangeMinutes = 1140

\* What C15 says of one rendering: v holds timeRange and
\* currentTimeYPosition.
NowLineAsSpecified(v) ==
  LET start == v.timeRange.start
      end == v.timeRange.end
      inside == IF end < start
                  THEN currentTime >= start \/ currentTime <= end
                  ELSE start <= currentTime /\ currentTime <= end
  IN (v.currentTimeYPosition # <<>>) <=> (Len(marks) > 0 /\ inside)

\* C15: currentTimeYPosition is null when there are no marks or the current
\* minute of the day is outside the visible range, and a position otherwise:
\* for a range that does not wrap exactly when start <= now <= end, for a
\* range that wraps exactly when now >= start or now <= end.  This holds of
\* CalendarBody and of appData.
C15_NowLineInRange ==
  op.name = "render" =>
    (NowLineAsSpecified(op) /\ NowLineAsSpecified(op.app))

\* The range 06:30..01:30 wraps and the line is shown at midnight.
C15_Witness ==
  /\ op.name = "render"
  /\ SleepAfterMidnight
  /\ op.rangeWraps
  /\ op.timeRange = [start |-> 390, end |-> 90]
  /\ currentTime = 0
  /\ op.currentTimeYPosition # <<>>

\* C16: after a tab selection, handleCreateSchedule or handleDeleteSchedule
\* the stored settings.activeScheduleId is the id of the schedule at
\* activeScheduleIndex.
C16_ActiveScheduleIdSaved ==
  op.name \in {"handleActiveScheduleIndexChange", "handleCreateSchedule",
               "handleDeleteSchedule"} =>
    /\ activeScheduleIndex + 1 \in 1..Len(schedules)
    /\ storeSettings.activeScheduleId = schedules[activeScheduleIndex + 1].id

\* The first of three tabs was deleted while the third was active: the
\* second of the two tabs left is active and its id is stored.
C16_Witness ==
  /\ op.name = "handleDeleteSchedule"
  /\ op.before = 3
  /\ Len(schedules) = 2
  /\ activeScheduleIndex = 1
  /\ storeSettings.activeScheduleId = schedules[2].id

\* C17: after loadData the schedule whose id is stored in
\* settings.activeScheduleId is active when it is one of the loaded
\* schedules, and the first schedule is active when the stored id is null or
\* names none of them; appData.marks holds the stored marks of the active
\* schedule, by ascending time.
C17_LastTabRestored ==
  op.name = "loadData" =>
    LET stored == storeSettings.activeScheduleId
        active == schedules[activeScheduleIndex + 1]
    IN /\ schedules = storeSchedules
       /\ activeScheduleIndex + 1 \in 1..Len(schedules)
       /\ stored \in {x.id : x \in Range(schedules)} => active.id = stored
       /\ stored \notin {x.id : x \in Range(schedules)} =>
            activeScheduleIndex = 0
       /\ Range(marks) = {m \in Range(storeMarks) : m.scheduleId = active.id}
       /\ Len(marks) = Cardinality(Range(marks))
       /\ \A i, j \in 1..Len(marks) :
            i < j => TimeOfDay(marks[i].time) <= TimeOfDay(marks[j].time)

\* The page was loaded with the id of the second schedule stored: the second
\* tab is active and its 8 marks are shown.
C17_Witness ==
  /\ op.name = "loadData"
  /\ Len(schedules) >= 2
  /\ activeScheduleIndex = 1
  /\ storeSettings.activeScheduleId = schedules[2].id
  /\ Len(marks) = 8

\* The page was loaded with a stored id that no schedule has: the first tab
\* is active.
C17_WitnessFallback ==
  /\ op.name = "loadData"
  /\ storeSettings.activeScheduleId # NULL
  /\ storeSettings.activeScheduleId \notin {x.id : x \in Range(schedules)}
  /\ Len(schedules) >= 1
  /\ activeScheduleIndex = 0

\* C18: no call returns differently because localStorage failed.  A loadData
\* whose read of the schedules fails does what it does on an empty schedule
\* list: it shows one new default schedule (07:00 to 22:00) as the active one
\* and tries to store it with its default marks; when the write fails too,
\* localStorage is left as it was and loadData still returns.  A failed read
\* of the settings selects the first tab, a failed read of the marks shows
\* none of the marks that were stored.  handleCreateSchedule and
\* handleActiveScheduleIndexChange whose writes fail return with the tab
\* added or selected and localStorage as it was.
C18_StorageFailuresSwallowed ==
  [][/\ (~loaded /\ loaded') =>
          /\ op'.name = "loadData" /\ ~op'.threw
          /\ ReadFails(fault, "schedules") =>
               LET kept == IF ReadFails(fault, "marks") THEN <<>>
                           ELSE storeMarks
                   e == ScheduleService_createSchedule(
                          <<>>, kept, DefaultScheduleArgs, nextId)
               IN /\ Len(schedules') = 1
                  /\ schedules'[1] =
                       [id |-> generateUUID(nextId),
                        name |-> DefaultScheduleArgs.name,
                        wakeTime |-> T0700, bedtime |-> T2200]
                  /\ schedules' = <<e.saved>>
                  /\ activeScheduleIndex' = 0
                  /\ IF WriteFails(fault)
                       THEN /\ UNCHANGED <<storeVars, fault>>
                            /\ marks' = MarkService_getMarks(kept,
                                                             e.saved.id)
                       ELSE /\ storeSchedules' = e.schedules
                            /\ storeMarks' = e.marks
                            /\ marks' = MarkService_getMarks(e.marks,
                                                             e.saved.id)
                            /\ Len(marks') = Len(DEFAULT_MARK_TEMPLATES)
          /\ ReadFails(fault, "settings") => activeScheduleIndex' = 0
          /\ ReadFails(fault, "marks") /\ WriteFails(fault) => marks' = <<>>
     /\ (op'.name = "handleCreateSchedule" /\ WriteFails(fault)) =>
          /\ ~op'.threw
          /\ UNCHANGED <<storeVars, fault>>
          /\ Len(schedules') = Len(schedules) + 1
          /\ activeScheduleIndex' = Len(schedules)
          /\ schedules'[Len(schedules')].id = generateUUID(nextId)
     /\ (op'.name = "handleActiveScheduleIndexChange"
          /\ WriteFails(fault)) =>
          /\ ~op'.threw
          /\ UNCHANGED <<storeVars, fault, schedules>>
          /\ activeScheduleIndex' + 1 \in 1..Len(schedules)
    ]_vars

\* localStorage holds a schedule and is unavailable when the page is opened:
\* a new default schedule is shown without marks, and nothing was written.
C18_Witness ==
  /\ op.name = "loadData"
  /\ op.fault.unavailable
  /\ storeSchedules # <<>>
  /\ Len(storeMarks) = Len(DEFAULT_MARK_TEMPLATES)
  /\ Len(schedules) = 1
  /\ schedules[1].id \notin StoredScheduleIds
  /\ schedules[1].name = DefaultScheduleArgs.name
  /\ marks = <<>>

\* C19: applyTimeEdit on a value that normalizeTime rejects does not throw,
\* calls no schedule update, leaves the stored and the shown schedules and
\* marks as they were, and ends the edit (editingTimeField is null).
C19_RejectedEditDiscarded ==
  [][(op'.name = "applyTimeEdit" /\ normalizeTime(editingTimeValue) = <<>>) =>
       /\ ~op'.threw
       /\ ~op'.emitted
       /\ UNCHANGED <<storeVars, schedules, marks, scheduleUpdates>>
       /\ editingTimeField' = NULL
    ]_vars

\* "12:60" was typed for wakeTime and applied: the schedule still wakes at
\* 07:00 and the edit is over.
C19_Witness ==
  /\ op.name = "applyTimeEdit"
  /\ op.field = "wakeTime"
  /\ op.value = <<"1", "2", ":", "6", "0">>
  /\ ~op.emitted
  /\ editingTimeField = NULL
  /\ Len(schedules) = 1
  /\ schedules[1].wakeTime = T0700
  /\ Len(marks) = Len(DEFAULT_MARK_TEMPLATES)

\* C20: for 'HH:MM' strings oldTime and newTime, getTimeDelta(oldTime,
\* newTime) is between -720 and 720 and differs from the minutes from
\* oldTime to newTime within one day by a multiple of 1440;
\* getTimeDelta("23:00", "01:00") is 120 and getTimeDelta("01:00", "23:00")
\* is -120.
C20_TimeDeltaShortest ==
  op.name = "getTimeDelta" =>
    LET raw == TimeOfDay(op.newTime) - TimeOfDay(op.oldTime) IN
    /\ op.result \in -720..720
    /\ \E k \in -1..1 : op.result = raw + k * 1440
    /\ (op.oldTime = T2300 /\ op.newTime = T0100) => op.result = 120
    /\ (op.oldTime = T0100 /\ op.newTime = T2300) => op.result = -120

\* getTimeDelta("23:00", "01:00") was computed, across midnight.
C20_Witness ==
  /\ op.name = "getTimeDelta"
  /\ op.oldTime = T2300
  /\ op.newTime = T0100
  /\ op.result = 120

\* C21: for every 'HH:MM' string t with hour 00-23 and minute 00-59, both
\* zero-padded, formatTime(parseTime(t)) is t.
C21_FormatParseRoundTrip ==
  op.name = "formatTime(parseTime)" =>
    /\ op.result = op.time
    /\ op.minutes = TimeOfDay(op.time)

\* "07:05" was parsed to 425 and formatted back.
C21_Witness ==
  /\ op.name = "formatTime(parseTime)"
  /\ op.time = HHMM(7, 5)
  /\ op.minutes = 425
  /\ op.result = HHMM(7, 5)

\* C22: for every integer m, negative ones and ones of 1440 or more
\* included, parseTime(formatTime(m)) is m modulo 1440, in 0..1439.
C22_ParseFormatNormalizes ==
  op.name = "parseTime(formatTime)" =>
    /\ op.result = op.minutes % 1440
    /\ op.result \in 0..1439

\* formatTime(-1) is "23:59", parsed to 1439.
C22_Witness ==
  /\ op.name = "parseTime(formatTime)"
  /\ op.minutes = -1
  /\ op.time = HHMM(23, 59)
  /\ op.result = 1439

\* The string is HH:MM, both fields of two digits.
TwoDigitFields(str) ==
  /\ Len(str) = 5
  /\ str[3] = ":"
  /\ \A i \in {1, 2, 4, 5} : IsDigit(str[i])

\* C23: parseTime returns a minute of the day, in 0..1439, for every
\* argument and never throws; an 'HH:MM' string with hour 00-23 and minute
\* 00-59 gives hours * 60 + minutes; an argument that is not a string, and
\* an 'HH:MM' string with the hour or the minute out of range such as
\* "24:00", gives 0.
C23_ParseTimeTotal ==
  op.name = "parseTime" =>
    /\ ~op.threw
    /\ op.result \in 0..1439
    /\ ~IsString(op.input) => op.result = 0
    /\ (IsString(op.input) /\ TwoDigitFields(op.input.value)) =>
         LET hours == DigitVal(op.input.value[1]) * 10
                        + DigitVal(op.input.value[2])
             minutes == DigitVal(op.input.value[4]) * 10
                          + DigitVal(op.input.value[5])
         IN IF hours <= 23 /\ minutes <= 59
              THEN op.result = hours * 60 + minutes
              ELSE op.result = 0

\* The ways an hour may be written: with one digit or with two.
HourForms(h) ==
  {SubSeq(HHMM(h, 0), 1, 2)} \cup (IF h < 10 THEN {<<Digits[h + 1]>>} ELSE {})

\* The accepted strings, each with the 'HH:MM' string it stands for: a bare
\* hour 0-23, and an hour 0-23, a colon and a two-digit minute 00-59.
AcceptedTimes ==
  UNION {{<<f, HHMM(h, 0)>> : f \in HourForms(h)} : h \in 0..23}
    \cup UNION {{<<f \o SubSeq(HHMM(h, m), 3, 5), HHMM(h, m)>> :
                   f \in HourForms(h)} : h \in 0..23, m \in 0..59}

\* C24: normalizeTime returns the zero-padded 'HH:MM' form when the trimmed
\* argument is a bare hour 0-23 of one or two digits or H:MM or HH:MM with
\* hour 0-23 and a two-digit minute 00-59, and null for every other
\* argument, strings that are empty or not of these shapes and arguments
\* that are not strings included; isValidTime is true exactly when
\* normalizeTime is not null.
C24_NormalizeTimeShapes ==
  op.name = "normalizeTime" =>
    LET trimmed == Trim(op.input.value)
        accepted == {p \in AcceptedTimes : p[1] = trimmed}
    IN /\ IF IsString(op.input) /\ accepted # {}
            THEN \A p \in accepted : op.result = p[2]
            ELSE op.result = <<>>
       /\ op.valid <=> op.result # <<>>

\* normalizeTime("2:06 ") is "02:06" and isValidTime("2:06 ") is true.
C24_Witness ==
  /\ op.name = "normalizeTime"
  /\ op.input = [type |-> "string", value |-> <<"2", ":", "0", "6", " ">>]
  /\ op.result = HHMM(2, 6)
  /\ op.valid

\* normalizeTime("24:00") is null.
C24_WitnessRejected ==
  /\ op.name = "normalizeTime"
  /\ op.input = [type |-> "string", value |-> <<"2", "4", ":", "0", "0">>]
  /\ op.result = <<>>
  /\ ~op.valid

\* The positions of the marks with an id in a list.
PositionsOf(list, id) == {i \in 1..Len(list) : list[i].id = id}

\* C25: appData.sortedMarks is the list of marks by raw time of day, except
\* that when a sleep mark and a wake mark are both in it and the sleep mark
\* comes before the wake mark, the sleep mark and everything before it are
\* moved to the end, the order inside both parts kept.
C25_AlternateOrdering ==
  op.name = "render" =>
    LET raw == SortByTime(marks)
        out == op.app.sortedMarks
        n == Len(raw)
        sleepAt == PositionsOf(raw, SleepTemplateId)
        wakeAt == PositionsOf(raw, "wake")
    IN /\ Len(out) = n
       /\ \A i, j \in 1..n :
            i < j => TimeOfDay(raw[i].time) <= TimeOfDay(raw[j].time)
       /\ IF \E k \in sleepAt : \E w \in wakeAt : k < w
            THEN \A k \in sleepAt :
                   /\ \A i \in 1..k : out[n - k + i] = raw[i]
                   /\ \A i \in (k + 1)..n : out[i - k] = raw[i]
            ELSE out = raw

\* Dinner at 00:30, sleep at 01:00 and wake at 07:00 are shown as wake,
\* dinner, sleep.
C25_Witness ==
  /\ op.name = "render"
  /\ Len(op.app.sortedMarks) = 3
  /\ op.app.sortedMarks[1].id = "wake"
  /\ op.app.sortedMarks[1].time = HHMM(7, 0)
  /\ op.app.sortedMarks[2].id = "dinner"
  /\ op.app.sortedMarks[2].time = HHMM(0, 30)
  /\ op.app.sortedMarks[3].id = SleepTemplateId
  /\ op.app.sortedMarks[3].time = HHMM(1, 0)

\* No two records of a store share an id.
UniqueIds(store) ==
  \A i, j \in 1..Len(store) : store[i].id = store[j].id => i = j

IdsOf(store) == {store[i].id : i \in 1..Len(store)}

\* merged is old with the fields of rec written over it.
MergedInto(merged, old, rec) ==
  /\ DOMAIN merged = DOMAIN old \cup DOMAIN rec
  /\ \A k \in DOMAIN rec : merged[k] = rec[k]
  /\ \A k \in DOMAIN old \ DOMAIN rec : merged[k] = old[k]

\* What save(rec) is to make of a store: a record without an id is appended
\* with an id no stored record has, a record with a stored id is merged
\* into the record of that id where it is, a record with another id is
\* appended.
SavedAsUpsert(old, new, rec) ==
  IF "id" \notin DOMAIN rec
    THEN /\ Len(new) = Len(old) + 1
         /\ SubSeq(new, 1, Len(old)) = old
         /\ new[Len(new)].id \notin IdsOf(old)
         /\ MergedInto(new[Len(new)], rec, [id |-> new[Len(new)].id])
  ELSE IF rec.id \in IdsOf(old)
    THEN /\ Len(new) = Len(old)
         /\ \A i \in 1..Len(old) :
              IF old[i].id = rec.id THEN MergedInto(new[i], old[i], rec)
              ELSE new[i] = old[i]
  ELSE new = Append(old, rec)

\* What saveMany(records) is to make of a store: the records with other ids
\* stay where and as they were, every id of the batch is stored, and the
\* store grows by the records without an id and by the ids not yet stored.
SavedManyAsUpsert(old, new, records) ==
  LET named == {records[i].id : i \in {j \in 1..Len(records) :
                                          "id" \in DOMAIN records[j]}}
      anonymous == {i \in 1..Len(records) : "id" \notin DOMAIN records[i]}
  IN /\ Len(new) = Len(old) + Cardinality(anonymous)
                     + Cardinality(named \ IdsOf(old))
     /\ \A i \in 1..Len(old) :
          IF old[i].id \in named THEN new[i].id = old[i].id
          ELSE new[i] = old[i]
     /\ named \subseteq IdsOf(new)
     /\ \A i \in (Len(old) + 1)..Len(new) : new[i].id \notin IdsOf(old)

\* What delete(id) is to make of a store: the record of that id is gone, the
\* others stay, in their order.
DeletedById(old, new, id) ==
  /\ id \notin IdsOf(new)
  /\ Len(new) = Len(old) - Cardinality({i \in 1..Len(old) : old[i].id = id})
  /\ \A i \in 1..Len(new) :
       new[i] = old[IF \E j \in 1..i : old[j].id = id THEN i + 1 ELSE i]

\* C26: save is an upsert, in the schedule store and in the mark store, and
\* after every save, saveMany and delete call no two records of a store
\* share an id, the records the call does not name are unchanged, and the
\* other store is unchanged.
C26_SaveIsUpsert ==
  [][LET old == IF op'.repository = "schedules" THEN storeSchedules
                ELSE storeMarks
         new == IF op'.repository = "schedules" THEN storeSchedules'
                ELSE storeMarks'
     IN /\ UniqueIds(storeSchedules') /\ UniqueIds(storeMarks')
        /\ IF op'.repository = "schedules" THEN UNCHANGED storeMarks
           ELSE UNCHANGED storeSchedules
        /\ op'.name = "save" => SavedAsUpsert(old, new, op'.records[1])
        /\ op'.name = "saveMany" => SavedManyAsUpsert(old, new, op'.records)
        /\ op'.name = "delete" => DeletedById(old, new, op'.id)
    ]_vars

\* A mark stored under a generated id was saved again with that id and
\* another time: the one stored record has the new time and its old title,
\* next to another stored mark.
C26_Witness ==
  /\ op.name = "save"
  /\ op.repository = "marks"
  /\ op.records = <<[id |-> generateUUID(0), time |-> T0100]>>
  /\ Len(storeMarks) >= 2
  /\ \E i \in 1..Len(storeMarks) :
       /\ storeMarks[i].id = generateUUID(0)
       /\ storeMarks[i].time = T0100
       /\ storeMarks[i].title = "New"

\* C27: createSchedule leaves the marks of every schedule that was stored
\* before the call as they were: the marks with the scheduleId of such a
\* schedule are the same before the call and after it.
C27_CreateKeepsOtherMarks ==
  [][op'.name = "createSchedule" =>
       \A id \in StoredScheduleIds :
         MarksOfSchedule(storeMarks', id) = MarksOfSchedule(storeMarks, id)
    ]_vars

\* C28: after createSchedule and any updateSchedule calls with 'HH:MM'
\* times, with no call that edits a mark, every stored default mark of a
\* stored schedule is at the template's offset from the schedule's current
\* wakeTime (morning marks) or bedtime (evening marks), within the day.
C28_DefaultMarksAnchored ==
  \A i \in 1..Len(storeSchedules) : \A m \in DefaultMarks(storeMarks) :
    m.scheduleId = storeSchedules[i].id =>
      LET anchor == IF m.id \in MORNING_MARKS THEN storeSchedules[i].wakeTime
                    ELSE storeSchedules[i].bedtime
      IN /\ TwoDigitFields(m.time)
         /\ TimeOfDay(m.time) =
              (TimeOfDay(anchor) + TemplateOf(m.id).offsetMinutes) % 1440

\* A schedule was moved to wake at 19:00, 12 hours later, and then to sleep
\* at 01:00, after midnight: lunch is at 01:00 and dinner at 22:00.
C28_Witness ==
  /\ op.name = "updateSchedule"
  /\ op.shifted
  /\ \E i \in 1..Len(storeSchedules) :
       /\ storeSchedules[i].id = op.id
       /\ storeSchedules[i].wakeTime = T1900
       /\ storeSchedules[i].bedtime = T0100
       /\ Len(MarksOfSchedule(storeMarks, op.id))
            = Len(DEFAULT_MARK_TEMPLATES)
  /\ ById(storeMarks, "lunch").time = T0100
  /\ ById(storeMarks, "dinner").time = T2200

\* C29: every mark of a non-empty sortedMarks is drawn inside the timeline:
\* its minutes from the start of the range are between 0 and
\* totalRangeMinutes, so getMarkYPosition is between 50 and svgHeight - 50,
\* in CalendarBody and in appData.
C29_MarksInsideTimeline ==
  op.name = "render" =>
    /\ \A i \in 1..Len(op.sortedMarks) :
         /\ minutesFromRangeStart(op.timeRange,
                                  TimeOfDay(op.sortedMarks[i].time))
              \in 0..op.totalRangeMinutes
         /\ op.markYPositions[i] \in 50..(op.svgHeight - 50)
    /\ \A i \in 1..Len(op.app.sortedMarks) :
         /\ minutesFromRangeStart(op.app.timeRange,
                                  TimeOfDay(op.app.sortedMarks[i].time))
              \in 0..op.app.totalRangeMinutes
         /\ op.app.markYPositions[i] \in 50..(op.app.svgHeight - 50)

\* The marks the UI lists are the stored marks of the schedule id.
ListsMarksOf(list, store, id) ==
  /\ Range(list) = {m \in Range(store) : m.scheduleId = id}
  /\ Len(list) = Cardinality({m \in Range(store) : m.scheduleId = id})

\* C30: handleDeleteSchedule(index) with index other than the
\* activeScheduleIndex keeps the same schedule active: the schedule at the
\* new activeScheduleIndex has the id of the schedule active before, and
\* marks holds that schedule's marks; deleting the active schedule leaves
\* activeScheduleIndex within the bounds of the remaining list.
C30_DeleteKeepsActive ==
  [][(op'.name = "handleDeleteSchedule"
       /\ FindIndex(schedules, op'.id) # 0
       /\ ActiveScheduleOf(schedules, activeScheduleIndex) # <<>>)
      => LET index == FindIndex(schedules, op'.id) - 1
             active == schedules[activeScheduleIndex + 1]
         IN IF index # activeScheduleIndex
              THEN /\ ActiveScheduleOf(schedules', activeScheduleIndex')
                        = <<active>>
                   /\ ListsMarksOf(marks', storeMarks', active.id)
              ELSE activeScheduleIndex' \in 0..(Len(schedules') - 1)]_vars

\* C30 witness: the first of three schedules was deleted while the third
\* was active, and the active index moved from 2 to 1.
C30_Witness ==
  /\ op.name = "handleDeleteSchedule"
  /\ op.before = 3
  /\ Len(schedules) = 2
  /\ activeScheduleIndex = 1
  /\ \E i, j \in 1..Len(UUIDS) :
       i < j /\ UUIDS[i] = op.id /\ UUIDS[j] = schedules[1].id
  /\ ListsMarksOf(marks, storeMarks, schedules[2].id)

====
